---------------------------- MODULE Spec2Model ----------------------------
(***************************************************************************)
(* A model of the evilstack virtual machine (src/src/vm/stackfk_vm.rs):    *)
(* StackFkVM::execute, i.e. compile(), analyze_labels() and the            *)
(* fetch-execute loop, over the symbol sequence handed to StackFkVM::new.  *)
(*                                                                         *)
(* Indices are the source's: ip and the entries of return_stack and labels *)
(* are 0-based, so the instruction at ip is program[ip + 1].               *)
(*                                                                         *)
(* f32 values are modelled as exact rationals n/d extended with inf, -inf  *)
(* and NaN; rounding to the 24-bit mantissa and the sign of zero are not   *)
(* modelled.                                                               *)
(***************************************************************************)
EXTENDS Integers, Sequences, FiniteSets, TLC

VARIABLES
    symbols,        \* StackFkVM.symbols
    program,        \* StackFkVM.program
    labels,         \* StackFkVM.labels, a function from label names to indices
    stack,          \* StackFkVM.stack
    return_stack,   \* StackFkVM.return_stack
    ip,             \* StackFkVM.ip
    flags,          \* StackFkVM.flags
    pc,             \* where main() is: "tokenize", "into_symbols", and in
                    \* execute() "compile", "analyze_labels", "loop",
                    \* or how it ended: "end", "exit", "error", "panic"
    stdout,         \* the lines println! wrote
    stderr,         \* the diagnostics Error::print wrote
    compiled,       \* how compile() returned: "none", "ok", "error"
    tokenizer,      \* the Tokenizer and the locals of tokenize()
    last            \* the loop iteration that ran last: its ip and what it did

vars == <<symbols, program, labels, stack, return_stack, ip, flags, pc,
          stdout, stderr, compiled, tokenizer, last>>

(***************************************************************************)
(* Bounds of the model.                                                    *)
(***************************************************************************)
\* taken jumps nest at most this deep (the return-address stack is unbounded)
MaxRet == 3
\* the general family holds every sequence of at most this many statements
MaxStmts == 2

\* the lines of a source text
MaxLines == 2

I32_MAX == 2147483647
I32_MIN == -I32_MAX - 1

(***************************************************************************)
(* Numbers.                                                                *)
(***************************************************************************)
Abs(x) == IF x < 0 THEN -x ELSE x

RECURSIVE GCD(_, _)
GCD(a, b) == IF b = 0 THEN a ELSE GCD(b, a % b)

\* i32 `/`: truncates toward zero
TruncDiv(b, a) ==
    IF (b >= 0) = (a > 0) THEN Abs(b) \div Abs(a) ELSE -(Abs(b) \div Abs(a))

\* i32 `%`: the remainder of the truncating division (sign of the dividend)
TruncRem(b, a) == b - a * TruncDiv(b, a)

InI32(x) == I32_MIN <= x /\ x <= I32_MAX

(***************************************************************************)
(* ConstType.                                                              *)
(***************************************************************************)
Integer(i) == [tag |-> "Integer", i |-> i]

String(s) == [tag |-> "String", s |-> s]

\* the finite f32 n/d, in lowest terms with a positive denominator
Float(n, d) ==
    LET g == GCD(Abs(n), Abs(d))
        s == IF d < 0 THEN -1 ELSE 1
    IN  [tag |-> "Float", k |-> "fin", n |-> (s * n) \div g, d |-> (s * d) \div g]

NaN == [tag |-> "Float", k |-> "nan", n |-> 0, d |-> 1]

Inf == [tag |-> "Float", k |-> "inf", n |-> 1, d |-> 1]

NegInf == [tag |-> "Float", k |-> "inf", n |-> -1, d |-> 1]

\* -1, 0 or 1
FSign(x) == IF x.n < 0 THEN -1 ELSE IF x.n > 0 THEN 1 ELSE 0

FSigned(s) == IF s < 0 THEN NegInf ELSE Inf

\* `i as f32`
IToF32(i) == Float(i, 1)

FNeg(x) == IF x.k = "nan" THEN NaN ELSE [x EXCEPT !.n = -x.n]

FAdd(x, y) ==
    IF x.k = "nan" \/ y.k = "nan" THEN NaN
    ELSE IF x.k = "inf" /\ y.k = "inf" THEN (IF x.n = y.n THEN x ELSE NaN)
    ELSE IF x.k = "inf" THEN x
    ELSE IF y.k = "inf" THEN y
    ELSE Float(x.n * y.d + y.n * x.d, x.d * y.d)

FSub(x, y) == FAdd(x, FNeg(y))

FMul(x, y) ==
    IF x.k = "nan" \/ y.k = "nan" THEN NaN
    ELSE IF x.k = "inf" \/ y.k = "inf"
         THEN (IF FSign(x) * FSign(y) = 0 THEN NaN ELSE FSigned(FSign(x) * FSign(y)))
    ELSE Float(x.n * y.n, x.d * y.d)

\* x / y
FDiv(x, y) ==
    IF x.k = "nan" \/ y.k = "nan" THEN NaN
    ELSE IF x.k = "inf"
         THEN (IF y.k = "inf" THEN NaN ELSE FSigned(x.n * (IF y.n < 0 THEN -1 ELSE 1)))
    ELSE IF y.k = "inf" THEN Float(0, 1)
    ELSE IF y.n = 0 THEN (IF x.n = 0 THEN NaN ELSE FSigned(x.n))
    ELSE Float(x.n * y.d, x.d * y.n)

\* the integer part of the finite n/d, toward zero
FTruncInt(x) == IF x.n >= 0 THEN x.n \div x.d ELSE -((-x.n) \div x.d)

\* x % y: x - y * trunc(x / y)
FRem(x, y) ==
    IF x.k # "fin" \/ y.k = "nan" THEN NaN
    ELSE IF y.k = "inf" THEN x
    ELSE IF y.n = 0 THEN NaN
    ELSE FSub(x, FMul(y, IToF32(FTruncInt(FDiv(x, y)))))

\* a float-to-i32 `as` cast of an integral value v: saturating
Saturate(v) == IF v > I32_MAX THEN I32_MAX ELSE IF v < I32_MIN THEN I32_MIN ELSE v

\* `x.floor() as i32`
FloorToI32(x) ==
    IF x.k = "nan" THEN 0
    ELSE IF x.k = "inf" THEN (IF x.n > 0 THEN I32_MAX ELSE I32_MIN)
    ELSE Saturate(x.n \div x.d)

\* `x as i32`
TruncToI32(x) ==
    IF x.k = "nan" THEN 0
    ELSE IF x.k = "inf" THEN (IF x.n > 0 THEN I32_MAX ELSE I32_MIN)
    ELSE Saturate(FTruncInt(x))

FEq(x, y) == x.k # "nan" /\ y.k # "nan" /\ x = y

FLt(x, y) ==
    /\ x.k # "nan" /\ y.k # "nan" /\ x # y
    /\ IF x.k = "inf" THEN x.n < 0
       ELSE IF y.k = "inf" THEN y.n > 0
       ELSE x.n * y.d < y.n * x.d

(***************************************************************************)
(* Text.                                                                   *)
(***************************************************************************)
\* the printable ASCII characters in byte order: 32 (space) to 95, and 97 to 126
AsciiLow == " !\"#$%&'()*+,-./0123456789:;<=>?@ABCDEFGHIJKLMNOPQRSTUVWXYZ[\\]^_"

AsciiHigh == "abcdefghijklmnopqrstuvwxyz{|}~"

\* the byte of a character
CharCode(c) ==
    IF \E i \in 1..Len(AsciiLow) : SubSeq(AsciiLow, i, i) = c
    THEN 31 + (CHOOSE i \in 1..Len(AsciiLow) : SubSeq(AsciiLow, i, i) = c)
    ELSE 96 + (CHOOSE i \in 1..Len(AsciiHigh) : SubSeq(AsciiHigh, i, i) = c)

\* String <: lexicographic by bytes
RECURSIVE StrLt(_, _)
StrLt(s, t) ==
    IF t = "" THEN FALSE
    ELSE IF s = "" THEN TRUE
    ELSE IF Head(s) = Head(t) THEN StrLt(Tail(s), Tail(t))
    ELSE CharCode(Head(s)) < CharCode(Head(t))

Digits == "0123456789"

IsDigit(c) == \E i \in 1..10 : SubSeq(Digits, i, i) = c

DigitVal(c) == (CHOOSE i \in 1..10 : SubSeq(Digits, i, i) = c) - 1

DigitChar(v) == SubSeq(Digits, v + 1, v + 1)

RECURSIVE AllDigits(_)
AllDigits(s) == s = "" \/ (IsDigit(Head(s)) /\ AllDigits(Tail(s)))

\* the value of a string of digits, after the digits read so far (acc)
RECURSIVE DigitsVal(_, _)
DigitsVal(s, acc) ==
    IF s = "" THEN acc ELSE DigitsVal(Tail(s), 10 * acc + DigitVal(Head(s)))

\* str::parse::<i32>: an optional sign and at least one digit, within the i32
\* range; <<TRUE, v>> or <<FALSE, 0>>
ParseI32(s) ==
    LET signed == s # "" /\ Head(s) \in {"+", "-"}
        body == IF signed THEN Tail(s) ELSE s
        mag == DigitsVal(body, 0)
        v == IF s # "" /\ Head(s) = "-" THEN -mag ELSE mag
    IN  IF body = "" \/ ~AllDigits(body) \/ ~InI32(v) THEN <<FALSE, 0>> ELSE <<TRUE, v>>

RECURSIVE Pow10(_)
Pow10(k) == IF k = 0 THEN 1 ELSE 10 * Pow10(k - 1)

\* the position of the first "." of s, or 0
RECURSIVE DotAt(_, _)
DotAt(s, i) ==
    IF i > Len(s) THEN 0 ELSE IF SubSeq(s, i, i) = "." THEN i ELSE DotAt(s, i + 1)

\* str::parse::<f32> on decimal text: an optional sign, digits with at most one
\* "." and at least one digit; <<TRUE, x>> or <<FALSE, NaN>>.  Exponents and the
\* words inf and nan, which no numeric symbol of the model spells, are not read.
ParseF32(s) ==
    LET signed == s # "" /\ Head(s) \in {"+", "-"}
        body == IF signed THEN Tail(s) ELSE s
        dot == DotAt(body, 1)
        whole == IF dot = 0 THEN body ELSE SubSeq(body, 1, dot - 1)
        frac == IF dot = 0 THEN "" ELSE SubSeq(body, dot + 1, Len(body))
        mag == Float(DigitsVal(whole \o frac, 0), Pow10(Len(frac)))
    IN  IF (whole \o frac) = "" \/ ~AllDigits(whole) \/ ~AllDigits(frac)
        THEN <<FALSE, NaN>>
        ELSE <<TRUE, IF s # "" /\ Head(s) = "-" THEN FNeg(mag) ELSE mag>>

\* Display of a natural number
RECURSIVE NatText(_)
NatText(v) == IF v < 10 THEN DigitChar(v) ELSE NatText(v \div 10) \o DigitChar(v % 10)

\* Display of an i32 ("{}")
IntText(i) == IF i < 0 THEN "-" \o NatText(-i) ELSE NatText(i)

\* the decimal digits of r/d (r < d), at most k of them
RECURSIVE FracText(_, _, _)
FracText(r, d, k) ==
    IF r = 0 \/ k = 0 THEN ""
    ELSE DigitChar((10 * r) \div d) \o FracText((10 * r) % d, d, k - 1)

\* Display of an f32 ("{}"): the decimal expansion, cut after 8 fraction digits
\* where it does not end (Rust prints the shortest text that reads back)
FloatText(x) ==
    IF x.k = "nan" THEN "NaN"
    ELSE IF x.k = "inf" THEN (IF x.n > 0 THEN "inf" ELSE "-inf")
    ELSE LET w == Abs(x.n) \div x.d
             r == Abs(x.n) % x.d
         IN  (IF x.n < 0 THEN "-" ELSE "") \o NatText(w)
                 \o (IF r = 0 THEN "" ELSE "." \o FracText(r, x.d, 8))

\* the line Instruction::Print writes for a value
Display(v) ==
    CASE v.tag = "Integer" -> IntText(v.i)
      [] v.tag = "Float" -> FloatText(v)
      [] v.tag = "String" -> v.s

(***************************************************************************)
(* Error (error.rs) and the Program Compiler (StackFkVM::compile).         *)
(***************************************************************************)
\* Error::new(message, pos), as Error::print writes it to stderr
Error(message, pos) == [message |-> message, pos |-> pos]

\* the opcode names that append their Instruction at once
ZeroOperand ==
    ("pop" :> "Pop") @@ ("add" :> "Add") @@ ("sub" :> "Sub") @@ ("mul" :> "Mul")
    @@ ("div" :> "Div") @@ ("idiv" :> "IDiv") @@ ("mod" :> "Mod")
    @@ ("print" :> "Print") @@ ("read" :> "Read") @@ ("atoi" :> "AToI")
    @@ ("scmp" :> "CmpInStack") @@ ("exit" :> "Exit") @@ ("ret" :> "Return")
    @@ ("rand" :> "Random") @@ ("time" :> "Time")

\* the jump opcode names, which wait for a label reference
JumpOpcode ==
    ("jmp" :> "Jump") @@ ("jeq" :> "JumpEq") @@ ("jne" :> "JumpNotEq")
    @@ ("jgt" :> "JumpGt") @@ ("jlt" :> "JumpLt") @@ ("jge" :> "JumpGtEq")
    @@ ("jle" :> "JumpLtEq") @@ ("jz" :> "JumpZero") @@ ("jnz" :> "JumpNotZero")
    @@ ("jneg" :> "JumpNeg")

\* the opcode names that wait for a literal
LiteralOpcode == ("push" :> "Push") @@ ("cmp" :> "Cmp")

\* format!("{}:{}", line_number, column_number)
Pos(symbol) == IntText(symbol.line_number) \o ":" \o IntText(symbol.column_number)

\* the locals and effects of compile() before its first symbol
CompileStart ==
    [program |-> <<>>, arg_required |-> FALSE, arg_required_by |-> "",
     stderr |-> <<>>, result |-> "ok"]

\* Error::new(..).print(); return;
CompileFail(c, message, pos) ==
    [c EXCEPT !.stderr = Append(@, Error(message, pos)), !.result = "error"]

\* self.program.push(instruction) for a zero-operand opcode or a label
CompileEmit(c, instruction) == [c EXCEPT !.program = Append(@, instruction)]

\* what completing an operand-taking opcode would do if arg_required stayed set
CompileOperandStaysPending(c, instruction) == CompileEmit(c, instruction)

\* self.program.push(instruction); arg_required = false
CompileOperand(c, instruction) ==
    [c EXCEPT !.program = Append(@, instruction), !.arg_required = FALSE]

\* what the Instruction arm would do if it dropped an opcode still awaiting its
\* argument instead of reporting it
CompileInstructionDropsPending(c, symbol) ==
    IF symbol.value \in (DOMAIN LiteralOpcode) \cup (DOMAIN JumpOpcode)
    THEN [c EXCEPT !.arg_required = TRUE, !.arg_required_by = symbol.value]
    ELSE IF symbol.value \in DOMAIN ZeroOperand
    THEN CompileEmit([c EXCEPT !.arg_required = FALSE],
                     [op |-> ZeroOperand[symbol.value], pos |-> Pos(symbol)])
    ELSE CompileFail(c, "Unknown instruction: " \o symbol.value, Pos(symbol))

\* SymbolType::Instruction
CompileInstruction(c, symbol) ==
    IF c.arg_required
    THEN CompileFail(c, "Missing argument for instruction: " \o c.arg_required_by,
                     Pos(symbol))
    ELSE IF symbol.value \in (DOMAIN LiteralOpcode) \cup (DOMAIN JumpOpcode)
    THEN [c EXCEPT !.arg_required = TRUE, !.arg_required_by = symbol.value]
    ELSE IF symbol.value \in DOMAIN ZeroOperand
    THEN CompileEmit(c, [op |-> ZeroOperand[symbol.value], pos |-> Pos(symbol)])
    ELSE CompileFail(c, "Unknown instruction: " \o symbol.value, Pos(symbol))

\* SymbolType::String, Integer and Float: kind names the literal in the
\* diagnostics, parsed is <<TRUE, value>> or <<FALSE, _>> (the unwrap fails)
CompileLiteral(c, symbol, kind, parsed) ==
    IF ~c.arg_required \/ c.arg_required_by \notin DOMAIN LiteralOpcode
    THEN CompileFail(c, "Unexpected " \o kind \o " literal: " \o symbol.value,
                     Pos(symbol))
    ELSE IF ~parsed[1]
    THEN [c EXCEPT !.result = "panic"]
    ELSE CompileOperand(c, [op |-> LiteralOpcode[c.arg_required_by],
                            value |-> parsed[2], pos |-> Pos(symbol)])

\* what the Label arm would do without its check of arg_required
CompileLabelWhilePending(c, symbol) ==
    IF symbol.value = ""
    THEN [c EXCEPT !.result = "panic"]
    ELSE CompileEmit(c, [op |-> "Label",
                         label |-> SubSeq(symbol.value, 1, Len(symbol.value) - 1),
                         pos |-> Pos(symbol)])

\* SymbolType::Label: the name is the text without its last character
CompileLabel(c, symbol) ==
    IF c.arg_required
    THEN CompileFail(c, "Missing argument for instruction: " \o c.arg_required_by,
                     Pos(symbol))
    ELSE IF symbol.value = ""
    THEN [c EXCEPT !.result = "panic"]
    ELSE CompileEmit(c, [op |-> "Label",
                         label |-> SubSeq(symbol.value, 1, Len(symbol.value) - 1),
                         pos |-> Pos(symbol)])

\* SymbolType::LabelReference: the name is the text without its first character
CompileLabelReference(c, symbol) ==
    IF ~c.arg_required
    THEN CompileFail(c, "Unexpected label reference: " \o symbol.value, Pos(symbol))
    ELSE IF symbol.value = ""
    THEN [c EXCEPT !.result = "panic"]
    ELSE IF c.arg_required_by \notin DOMAIN JumpOpcode
    THEN CompileFail(c, "Unexpected label reference: " \o symbol.value, Pos(symbol))
    ELSE CompileOperand(c, [op |-> JumpOpcode[c.arg_required_by],
                            label |-> SubSeq(symbol.value, 2, Len(symbol.value)),
                            pos |-> Pos(symbol)])

\* one iteration of `for symbol in &self.symbols`
CompileSymbol(c, symbol) ==
    CASE symbol.symbol_type = "Instruction" -> CompileInstruction(c, symbol)
      [] symbol.symbol_type = "String" ->
            CompileLiteral(c, symbol, "string", <<TRUE, String(symbol.value)>>)
      [] symbol.symbol_type = "Integer" ->
            CompileLiteral(c, symbol, "integer",
                LET r == ParseI32(symbol.value) IN <<r[1], Integer(r[2])>>)
      [] symbol.symbol_type = "Float" ->
            CompileLiteral(c, symbol, "float", ParseF32(symbol.value))
      [] symbol.symbol_type = "Label" -> CompileLabel(c, symbol)
      [] symbol.symbol_type = "LabelReference" -> CompileLabelReference(c, symbol)

\* the end of the symbol stream: an opcode still waits for its operand
CompileEnd(c) ==
    IF c.arg_required
    THEN CompileFail(c, "Missing argument for instruction: " \o c.arg_required_by, "")
    ELSE c

\* compile() from symbol i on: it returns at the first diagnostic or fault
RECURSIVE CompileFrom(_, _, _)
CompileFrom(syms, i, c) ==
    IF c.result # "ok" THEN c
    ELSE IF i > Len(syms) THEN CompileEnd(c)
    ELSE CompileFrom(syms, i + 1, CompileSymbol(c, syms[i]))

\* StackFkVM::compile
CompileAll(syms) == CompileFrom(syms, 1, CompileStart)

\* what the scan would build if an entry already present were kept
RECURSIVE AnalyzeFirstWins(_, _, _)
AnalyzeFirstWins(prog, i, table) ==
    IF i >= Len(prog) THEN table
    ELSE AnalyzeFirstWins(prog, i + 1,
            IF prog[i + 1].op = "Label"
            THEN table @@ (prog[i + 1].label :> i)
            ELSE table)

\* StackFkVM::analyze_labels over the instructions from index i (0-based) on:
\* a later Label of the same name overwrites the entry
RECURSIVE AnalyzeFrom(_, _, _)
AnalyzeFrom(prog, i, table) ==
    IF i >= Len(prog) THEN table
    ELSE AnalyzeFrom(prog, i + 1,
            IF prog[i + 1].op = "Label"
            THEN (prog[i + 1].label :> i) @@ table
            ELSE table)

(***************************************************************************)
(* The Execution Engine: the handlers of the match in StackFkVM::execute.  *)
(* A handler maps the machine m (stack, return_stack, ip, flags, stdout,   *)
(* stderr, and pc, ev: whether the loop goes on and what the handler did)  *)
(* to the machine after it, before the loop's `self.ip += 1`.              *)
(***************************************************************************)
\* what the flags would start as if zero were set at construction
FlagsWithZero ==
    [zero |-> TRUE, negative |-> FALSE, equal |-> FALSE, not_equal |-> FALSE,
     greater_than |-> FALSE, less_than |-> FALSE,
     greater_than_or_equal |-> FALSE, less_than_or_equal |-> FALSE]

\* Flags after StackFkVM::new
NoFlags ==
    [zero |-> FALSE, negative |-> FALSE, equal |-> FALSE, not_equal |-> FALSE,
     greater_than |-> FALSE, less_than |-> FALSE,
     greater_than_or_equal |-> FALSE, less_than_or_equal |-> FALSE]

\* the eight assignments of a compare arm, from a == b, a != b, a < b, a > b,
\* a >= b and a <= b
SetFlags(eq, ne, lt, gt, ge, le) ==
    [zero |-> eq, negative |-> lt, equal |-> eq, not_equal |-> ne,
     greater_than |-> gt, less_than |-> lt,
     greater_than_or_equal |-> ge, less_than_or_equal |-> le]

\* what a compare would leave if greater_than_or_equal and less_than_or_equal
\* were not assigned and kept the value they start with
CompareLeavesTwo(a, b) ==
    CASE a.tag = "Integer" /\ b.tag = "Integer" ->
            <<TRUE, SetFlags(a.i = b.i, a.i # b.i, a.i < b.i, a.i > b.i, FALSE, FALSE)>>
      [] a.tag = "Float" /\ b.tag = "Float" ->
            <<TRUE, SetFlags(FEq(a, b), ~FEq(a, b), FLt(a, b), FLt(b, a), FALSE, FALSE)>>
      [] a.tag = "String" /\ b.tag = "String" ->
            <<TRUE, SetFlags(a.s = b.s, a.s # b.s, StrLt(a.s, b.s), StrLt(b.s, a.s),
                             FALSE, FALSE)>>
      [] OTHER -> <<FALSE, NoFlags>>

\* the match (&a, &b) of Cmp and CmpInStack: <<TRUE, flags>>, or <<FALSE, _>>
\* on a type mismatch
Compare(a, b) ==
    CASE a.tag = "Integer" /\ b.tag = "Integer" ->
            <<TRUE, SetFlags(a.i = b.i, a.i # b.i, a.i < b.i, a.i > b.i,
                             a.i >= b.i, a.i <= b.i)>>
      [] a.tag = "Float" /\ b.tag = "Float" ->
            <<TRUE, SetFlags(FEq(a, b), ~FEq(a, b), FLt(a, b), FLt(b, a),
                             FLt(b, a) \/ FEq(a, b), FLt(a, b) \/ FEq(a, b))>>
      [] a.tag = "String" /\ b.tag = "String" ->
            <<TRUE, SetFlags(a.s = b.s, a.s # b.s, StrLt(a.s, b.s), StrLt(b.s, a.s),
                             ~StrLt(a.s, b.s), ~StrLt(b.s, a.s))>>
      [] OTHER -> <<FALSE, NoFlags>>

Top(s) == s[Len(s)]

Next2(s) == s[Len(s) - 1]

Drop(s, k) == SubSeq(s, 1, Len(s) - k)

\* Error::new(message, pos).print(); return;
Fatal(m, message, pos) ==
    [m EXCEPT !.stderr = Append(@, Error(message, pos)), !.pc = "error", !.ev = "error"]

\* Error::new(message, pos).print(); with no return after it
Diagnose(m, message, pos) ==
    [m EXCEPT !.stderr = Append(@, Error(message, pos)), !.ev = "diag"]

\* a native fault: an unwrap of None, an integer division by zero, an overflow
Panic(m) == [m EXCEPT !.pc = "panic", !.ev = "panic"]

\* an i32 result x.  An overflow (a panic or a wrap-around, by the build) is a
\* fault here; no literal of the model's programs is large enough to reach one.
IntResult(x) == IF InI32(x) THEN <<"ok", Integer(x)>> ELSE <<"panic", Integer(0)>>

\* what the Integer arms would give if a zero divisor were caught and reported
IntDivResultGuarded(b, a, x) ==
    IF a = 0 THEN <<"mismatch", Integer(0)>>
    ELSE IF b = I32_MIN /\ a = -1 THEN <<"panic", Integer(0)>>
    ELSE <<"ok", Integer(x)>>

\* b / a and b % a on i32: a fault when a = 0 or the quotient overflows
IntDivResult(b, a, x) ==
    IF a = 0 \/ (b = I32_MIN /\ a = -1) THEN <<"panic", Integer(0)>>
    ELSE <<"ok", Integer(x)>>

Mismatch == <<"mismatch", Integer(0)>>

\* what add would do if it concatenated Strings as a followed by b
AddValueTopFirst(a, b) ==
    CASE a.tag = "Integer" /\ b.tag = "Integer" -> IntResult(a.i + b.i)
      [] a.tag = "Float" /\ b.tag = "Float" -> <<"ok", FAdd(a, b)>>
      [] a.tag = "Float" /\ b.tag = "Integer" -> <<"ok", FAdd(a, IToF32(b.i))>>
      [] a.tag = "Integer" /\ b.tag = "Float" -> <<"ok", FAdd(IToF32(a.i), b)>>
      [] a.tag = "String" /\ b.tag = "String" -> <<"ok", String(a.s \o b.s)>>
      [] OTHER -> Mismatch

\* what add would do if it kept only the top of two Strings
AddValueDropsNext(a, b) ==
    CASE a.tag = "Integer" /\ b.tag = "Integer" -> IntResult(a.i + b.i)
      [] a.tag = "Float" /\ b.tag = "Float" -> <<"ok", FAdd(a, b)>>
      [] a.tag = "Float" /\ b.tag = "Integer" -> <<"ok", FAdd(a, IToF32(b.i))>>
      [] a.tag = "Integer" /\ b.tag = "Float" -> <<"ok", FAdd(IToF32(a.i), b)>>
      [] a.tag = "String" /\ b.tag = "String" -> <<"ok", String(a.s)>>
      [] OTHER -> Mismatch

\* the match (a, b) of each binary instruction; a is the popped top
AddValue(a, b) ==
    CASE a.tag = "Integer" /\ b.tag = "Integer" -> IntResult(a.i + b.i)
      [] a.tag = "Float" /\ b.tag = "Float" -> <<"ok", FAdd(a, b)>>
      [] a.tag = "Float" /\ b.tag = "Integer" -> <<"ok", FAdd(a, IToF32(b.i))>>
      [] a.tag = "Integer" /\ b.tag = "Float" -> <<"ok", FAdd(IToF32(a.i), b)>>
      [] a.tag = "String" /\ b.tag = "String" -> <<"ok", String(b.s \o a.s)>>
      [] OTHER -> Mismatch

\* what sub would do if it computed a - b on two Integers
SubValueTopLeft(a, b) ==
    CASE a.tag = "Integer" /\ b.tag = "Integer" -> IntResult(a.i - b.i)
      [] a.tag = "Float" /\ b.tag = "Float" -> <<"ok", FSub(b, a)>>
      [] a.tag = "Float" /\ b.tag = "Integer" -> <<"ok", FSub(IToF32(b.i), a)>>
      [] a.tag = "Integer" /\ b.tag = "Float" -> <<"ok", FSub(IToF32(a.i), b)>>
      [] OTHER -> Mismatch

SubValue(a, b) ==
    CASE a.tag = "Integer" /\ b.tag = "Integer" -> IntResult(b.i - a.i)
      [] a.tag = "Float" /\ b.tag = "Float" -> <<"ok", FSub(b, a)>>
      [] a.tag = "Float" /\ b.tag = "Integer" -> <<"ok", FSub(IToF32(b.i), a)>>
      [] a.tag = "Integer" /\ b.tag = "Float" -> <<"ok", FSub(IToF32(a.i), b)>>
      [] OTHER -> Mismatch

MulValue(a, b) ==
    CASE a.tag = "Integer" /\ b.tag = "Integer" -> IntResult(a.i * b.i)
      [] a.tag = "Float" /\ b.tag = "Float" -> <<"ok", FMul(a, b)>>
      [] a.tag = "Float" /\ b.tag = "Integer" -> <<"ok", FMul(a, IToF32(b.i))>>
      [] a.tag = "Integer" /\ b.tag = "Float" -> <<"ok", FMul(IToF32(a.i), b)>>
      [] OTHER -> Mismatch

\* what div would do if a Float top with an Integer next gave an Integer
DivValueTruncates(a, b) ==
    CASE a.tag = "Integer" /\ b.tag = "Integer" ->
            IntDivResult(b.i, a.i, TruncDiv(b.i, a.i))
      [] a.tag = "Float" /\ b.tag = "Float" -> <<"ok", FDiv(b, a)>>
      [] a.tag = "Float" /\ b.tag = "Integer" ->
            <<"ok", Integer(TruncToI32(FDiv(IToF32(b.i), a)))>>
      [] a.tag = "Integer" /\ b.tag = "Float" -> <<"ok", FDiv(b, IToF32(a.i))>>
      [] OTHER -> Mismatch

DivValue(a, b) ==
    CASE a.tag = "Integer" /\ b.tag = "Integer" ->
            IntDivResult(b.i, a.i, TruncDiv(b.i, a.i))
      [] a.tag = "Float" /\ b.tag = "Float" -> <<"ok", FDiv(b, a)>>
      [] a.tag = "Float" /\ b.tag = "Integer" -> <<"ok", FDiv(IToF32(b.i), a)>>
      [] a.tag = "Integer" /\ b.tag = "Float" -> <<"ok", FDiv(b, IToF32(a.i))>>
      [] OTHER -> Mismatch

\* what idiv would do if it cast the quotient without floor()
IDivValueTowardZero(a, b) ==
    CASE a.tag = "Integer" /\ b.tag = "Integer" ->
            IntDivResult(b.i, a.i, TruncDiv(b.i, a.i))
      [] a.tag = "Float" /\ b.tag = "Float" ->
            <<"ok", Integer(TruncToI32(FDiv(b, a)))>>
      [] a.tag = "Float" /\ b.tag = "Integer" ->
            <<"ok", Integer(TruncToI32(FDiv(IToF32(b.i), a)))>>
      [] a.tag = "Integer" /\ b.tag = "Float" ->
            <<"ok", Integer(TruncToI32(FDiv(b, IToF32(a.i))))>>
      [] OTHER -> Mismatch

IDivValue(a, b) ==
    CASE a.tag = "Integer" /\ b.tag = "Integer" ->
            IntDivResult(b.i, a.i, TruncDiv(b.i, a.i))
      [] a.tag = "Float" /\ b.tag = "Float" ->
            <<"ok", Integer(FloorToI32(FDiv(b, a)))>>
      [] a.tag = "Float" /\ b.tag = "Integer" ->
            <<"ok", Integer(FloorToI32(FDiv(IToF32(b.i), a)))>>
      [] a.tag = "Integer" /\ b.tag = "Float" ->
            <<"ok", Integer(FloorToI32(FDiv(b, IToF32(a.i))))>>
      [] OTHER -> Mismatch

ModValue(a, b) ==
    CASE a.tag = "Integer" /\ b.tag = "Integer" ->
            IntDivResult(b.i, a.i, TruncRem(b.i, a.i))
      [] a.tag = "Float" /\ b.tag = "Float" -> <<"ok", FRem(b, a)>>
      [] a.tag = "Float" /\ b.tag = "Integer" -> <<"ok", FRem(IToF32(b.i), a)>>
      [] a.tag = "Integer" /\ b.tag = "Float" -> <<"ok", FRem(b, IToF32(a.i))>>
      [] OTHER -> Mismatch

\* what a binary handler would do if it popped before it checked the depth
ExecBinaryPopsFirst(m, name, pos, r) ==
    IF Len(m.stack) < 2
    THEN Fatal([m EXCEPT !.stack = <<>>],
               "Not enough operands for " \o name \o " instruction", pos)
    ELSE LET popped == [m EXCEPT !.stack = Drop(@, 2)]
         IN  CASE r[1] = "ok" -> [popped EXCEPT !.stack = Append(@, r[2])]
               [] r[1] = "panic" -> Panic(popped)
               [] r[1] = "mismatch" ->
                    Fatal(popped, "Type mismatch for " \o name \o " instruction", pos)

\* the shape the six binary handlers share: the operand check, the two pops,
\* and the push of the result r of the match
ExecBinary(m, name, pos, r) ==
    IF Len(m.stack) < 2
    THEN Fatal(m, "Not enough operands for " \o name \o " instruction", pos)
    ELSE LET popped == [m EXCEPT !.stack = Drop(@, 2)]
         IN  CASE r[1] = "ok" -> [popped EXCEPT !.stack = Append(@, r[2])]
               [] r[1] = "panic" -> Panic(popped)
               [] r[1] = "mismatch" ->
                    Fatal(popped, "Type mismatch for " \o name \o " instruction", pos)

ExecAdd(m, pos) ==
    ExecBinary(m, "ADD", pos,
        IF Len(m.stack) < 2 THEN Mismatch ELSE AddValue(Top(m.stack), Next2(m.stack)))

ExecSub(m, pos) ==
    ExecBinary(m, "SUB", pos,
        IF Len(m.stack) < 2 THEN Mismatch ELSE SubValue(Top(m.stack), Next2(m.stack)))

ExecMul(m, pos) ==
    ExecBinary(m, "MUL", pos,
        IF Len(m.stack) < 2 THEN Mismatch ELSE MulValue(Top(m.stack), Next2(m.stack)))

ExecDiv(m, pos) ==
    ExecBinary(m, "DIV", pos,
        IF Len(m.stack) < 2 THEN Mismatch ELSE DivValue(Top(m.stack), Next2(m.stack)))

ExecIDiv(m, pos) ==
    ExecBinary(m, "IDIV", pos,
        IF Len(m.stack) < 2 THEN Mismatch ELSE IDivValue(Top(m.stack), Next2(m.stack)))

ExecMod(m, pos) ==
    ExecBinary(m, "MOD", pos,
        IF Len(m.stack) < 2 THEN Mismatch ELSE ModValue(Top(m.stack), Next2(m.stack)))

\* Instruction::Push
ExecPush(m, value) == [m EXCEPT !.stack = Append(@, value)]

\* Instruction::Pop
ExecPop(m, pos) ==
    IF m.stack = <<>> THEN Fatal(m, "Cannot pop from an empty stack", pos)
    ELSE [m EXCEPT !.stack = Drop(@, 1)]

\* Instruction::Duplicate
ExecDuplicate(m, pos) ==
    IF m.stack = <<>> THEN Fatal(m, "Cannot duplicate from an empty stack", pos)
    ELSE [m EXCEPT !.stack = Append(Append(Drop(@, 1), Top(@)), Top(@))]

\* Instruction::Swap
ExecSwap(m, pos) ==
    IF Len(m.stack) < 2 THEN Fatal(m, "Not enough operands for SWAP instruction", pos)
    ELSE [m EXCEPT !.stack = Append(Append(Drop(@, 2), Top(@)), Next2(@))]

\* Instruction::Print
ExecPrint(m, pos) ==
    IF m.stack = <<>> THEN Fatal(m, "Cannot print from an empty stack", pos)
    ELSE [m EXCEPT !.stack = Drop(@, 1), !.stdout = Append(@, Display(Top(m.stack)))]

Whitespace == {" ", "\t", "\n", "\r"}

\* str::trim: without the whitespace at both ends
RECURSIVE Trim(_)
Trim(s) ==
    IF s = "" THEN s
    ELSE IF Head(s) \in Whitespace THEN Trim(Tail(s))
    ELSE IF SubSeq(s, Len(s), Len(s)) \in Whitespace THEN Trim(SubSeq(s, 1, Len(s) - 1))
    ELSE s

\* Instruction::Read; read is what read_line did: [ok, line]
ExecRead(m, pos, read) ==
    IF read.ok THEN [m EXCEPT !.stack = Append(@, String(Trim(read.line)))]
    ELSE Fatal(m, "Failed to read input", pos)

\* Instruction::AToI
ExecAToI(m, pos) ==
    IF m.stack = <<>> THEN Fatal(m, "Cannot convert emptiness to an integer!", pos)
    ELSE LET value == Top(m.stack)
             popped == [m EXCEPT !.stack = Drop(@, 1)]
         IN  IF value.tag # "String"
             THEN Fatal(popped, "Type mismatch for ATOI instruction", pos)
             ELSE IF ParseI32(value.s)[1]
             THEN [popped EXCEPT !.stack = Append(@, Integer(ParseI32(value.s)[2]))]
             ELSE Fatal(popped, "Invalid integer: " \o value.s, pos)

\* Instruction::FToI
ExecFToI(m, pos) ==
    IF m.stack = <<>> THEN Fatal(m, "Cannot convert emptiness to an integer!", pos)
    ELSE LET value == Top(m.stack)
             popped == [m EXCEPT !.stack = Drop(@, 1)]
         IN  IF value.tag = "Float"
             THEN [popped EXCEPT !.stack = Append(@, Integer(TruncToI32(value)))]
             ELSE Fatal(popped, "Type mismatch for FTOI instruction", pos)

\* what a taken jump would do if it pushed its own index as the return address
TakeJumpPushesSelf(m, table, label, pos, returns) ==
    IF label \in DOMAIN table
    THEN [m EXCEPT !.return_stack = Append(@, m.ip), !.ip = table[label],
                   !.ev = "taken"]
    ELSE IF returns THEN Fatal(m, "Unknown label: " \o label, pos)
    ELSE Diagnose(m, "Unknown label: " \o label, pos)

\* what a taken jump would do if it pushed no return address
TakeJumpBare(m, table, label, pos, returns) ==
    IF label \in DOMAIN table
    THEN [m EXCEPT !.ip = table[label], !.ev = "taken"]
    ELSE IF returns THEN Fatal(m, "Unknown label: " \o label, pos)
    ELSE Diagnose(m, "Unknown label: " \o label, pos)

\* what a taken jump would do if it landed one past the label's index
TakeJumpPastLabel(m, table, label, pos, returns) ==
    IF label \in DOMAIN table
    THEN [m EXCEPT !.return_stack = Append(@, m.ip + 1), !.ip = table[label] + 1,
                   !.ev = "taken"]
    ELSE IF returns THEN Fatal(m, "Unknown label: " \o label, pos)
    ELSE Diagnose(m, "Unknown label: " \o label, pos)

\* what a taken jump would do if it pushed its return address twice
TakeJumpPushesTwice(m, table, label, pos, returns) ==
    IF label \in DOMAIN table
    THEN [m EXCEPT !.return_stack = Append(Append(@, m.ip + 1), m.ip + 1),
                   !.ip = table[label], !.ev = "taken"]
    ELSE IF returns THEN Fatal(m, "Unknown label: " \o label, pos)
    ELSE Diagnose(m, "Unknown label: " \o label, pos)

\* what a taken jump would do if it pushed the index after the next one
TakeJumpPushesPastNext(m, table, label, pos, returns) ==
    IF label \in DOMAIN table
    THEN [m EXCEPT !.return_stack = Append(@, m.ip + 2), !.ip = table[label],
                   !.ev = "taken"]
    ELSE IF returns THEN Fatal(m, "Unknown label: " \o label, pos)
    ELSE Diagnose(m, "Unknown label: " \o label, pos)

\* the arm every taken jump shares: match self.labels.get(label); returns says
\* whether the None arm ends with `return`
TakeJump(m, table, label, pos, returns) ==
    IF label \in DOMAIN table
    THEN [m EXCEPT !.return_stack = Append(@, m.ip + 1), !.ip = table[label],
                   !.ev = "taken"]
    ELSE IF returns THEN Fatal(m, "Unknown label: " \o label, pos)
    ELSE Diagnose(m, "Unknown label: " \o label, pos)

\* what a conditional jump would do if it pushed its return address even when
\* its flag does not hold
JumpIfAlwaysPushes(m, table, flag, label, pos, returns) ==
    IF flag THEN TakeJump(m, table, label, pos, returns)
    ELSE [m EXCEPT !.return_stack = Append(@, m.ip + 1), !.ev = "not_taken"]

\* a conditional jump: `if self.flags.<flag> { match ... }`
JumpIf(m, table, flag, label, pos, returns) ==
    IF flag THEN TakeJump(m, table, label, pos, returns)
    ELSE [m EXCEPT !.ev = "not_taken"]

ExecJump(m, table, label, pos) == TakeJump(m, table, label, pos, TRUE)

\* what jeq would do if its None arm ended with `return` like that of jne
ExecJumpEqHalts(m, table, label, pos) ==
    JumpIf(m, table, m.flags.equal, label, pos, TRUE)

ExecJumpEq(m, table, label, pos) ==
    JumpIf(m, table, m.flags.equal, label, pos, FALSE)

ExecJumpNotEq(m, table, label, pos) ==
    JumpIf(m, table, m.flags.not_equal, label, pos, TRUE)

ExecJumpGt(m, table, label, pos) ==
    JumpIf(m, table, m.flags.greater_than, label, pos, TRUE)

ExecJumpLt(m, table, label, pos) ==
    JumpIf(m, table, m.flags.less_than, label, pos, TRUE)

ExecJumpGtEq(m, table, label, pos) ==
    JumpIf(m, table, m.flags.greater_than_or_equal, label, pos, TRUE)

ExecJumpLtEq(m, table, label, pos) ==
    JumpIf(m, table, m.flags.less_than_or_equal, label, pos, TRUE)

ExecJumpZero(m, table, label, pos) ==
    JumpIf(m, table, m.flags.zero, label, pos, TRUE)

\* what jnz would do if it tested zero rather than its negation
ExecJumpNotZeroOnZero(m, table, label, pos) ==
    JumpIf(m, table, m.flags.zero, label, pos, FALSE)

ExecJumpNotZero(m, table, label, pos) ==
    JumpIf(m, table, ~m.flags.zero, label, pos, FALSE)

ExecJumpNeg(m, table, label, pos) ==
    JumpIf(m, table, m.flags.negative, label, pos, FALSE)

\* what ret would do if it set self.ip = ip, leaving the loop's increment on top
ExecReturnNoAdjust(m, pos) ==
    IF m.return_stack = <<>>
    THEN Fatal(m, "Cannot return anything from the main function!", pos)
    ELSE [m EXCEPT !.return_stack = Drop(@, 1), !.ip = Top(m.return_stack),
                   !.ev = "ret"]

\* what ret would do if it read the return address without popping it
ExecReturnKeep(m, pos) ==
    IF m.return_stack = <<>>
    THEN Fatal(m, "Cannot return anything from the main function!", pos)
    ELSE [m EXCEPT !.ip = Top(m.return_stack) - 1, !.ev = "ret"]

\* Instruction::Return: self.ip = ip - 1, so that the loop's increment lands on ip
ExecReturn(m, pos) ==
    IF m.return_stack = <<>>
    THEN Fatal(m, "Cannot return anything from the main function!", pos)
    ELSE [m EXCEPT !.return_stack = Drop(@, 1), !.ip = Top(m.return_stack) - 1,
                   !.ev = "ret"]

\* Instruction::Exit
\* what exit would do if the loop went on after it
ExecExitGoesOn(m) == [m EXCEPT !.ev = "exit"]

ExecExit(m) == [m EXCEPT !.pc = "exit", !.ev = "exit"]

\* Instruction::Cmp: the pop is unwrapped with no check of the stack
ExecCmp(m, value, pos) ==
    IF m.stack = <<>> THEN Panic(m)
    ELSE LET a == Top(m.stack)
             popped == [m EXCEPT !.stack = Drop(@, 1)]
             r == Compare(a, value)
         IN  IF r[1] THEN [popped EXCEPT !.flags = r[2], !.stack = Append(@, a)]
             ELSE Fatal(popped, "Type mismatch for CMP instruction", pos)

\* what scmp would do if it pushed a and then b back
ExecCmpInStackSwapped(m, pos) ==
    IF Len(m.stack) < 2 THEN Fatal(m, "Not enough operands for SCMP instruction", pos)
    ELSE LET a == Top(m.stack)
             b == Next2(m.stack)
             popped == [m EXCEPT !.stack = Drop(@, 2)]
             r == Compare(a, b)
         IN  IF r[1]
             THEN [popped EXCEPT !.flags = r[2], !.stack = Append(Append(@, a), b)]
             ELSE Fatal(popped, "Type mismatch for SCMP instruction", pos)

\* what scmp would do if a type mismatch reset the flags
ExecCmpInStackMismatchClears(m, pos) ==
    IF Len(m.stack) < 2 THEN Fatal(m, "Not enough operands for SCMP instruction", pos)
    ELSE LET a == Top(m.stack)
             b == Next2(m.stack)
             popped == [m EXCEPT !.stack = Drop(@, 2)]
             r == Compare(a, b)
         IN  IF r[1]
             THEN [popped EXCEPT !.flags = r[2], !.stack = Append(Append(@, b), a)]
             ELSE Fatal([popped EXCEPT !.flags = NoFlags],
                        "Type mismatch for SCMP instruction", pos)

\* Instruction::CmpInStack
ExecCmpInStack(m, pos) ==
    IF Len(m.stack) < 2 THEN Fatal(m, "Not enough operands for SCMP instruction", pos)
    ELSE LET a == Top(m.stack)
             b == Next2(m.stack)
             popped == [m EXCEPT !.stack = Drop(@, 2)]
             r == Compare(a, b)
         IN  IF r[1]
             THEN [popped EXCEPT !.flags = r[2], !.stack = Append(Append(@, b), a)]
             ELSE Fatal(popped, "Type mismatch for SCMP instruction", pos)

\* what a Label would do if running over it reset the flags
ExecLabelClearsFlags(m) == [m EXCEPT !.flags = NoFlags]

\* Instruction::Label: the empty arm
ExecLabel(m) == m

\* Instruction::Random; draw is what gen_range(0.0..1.0) returned
ExecRandom(m, draw) == [m EXCEPT !.stack = Append(@, draw)]

\* the `_` arm: Time, IToA, IToF
ExecUnimplemented(m) == Diagnose(m, "Unimplemented instruction", "")

(***************************************************************************)
(* What the environment decides in one loop iteration.                     *)
(***************************************************************************)
\* io::stdin().read_line: a line, the end of the input, or a failure
ReadOutcomes ==
    {[ok |-> TRUE, line |-> "7\n"], [ok |-> TRUE, line |-> " x \n"],
     [ok |-> TRUE, line |-> ""], [ok |-> FALSE, line |-> ""]}

\* rng.gen_range(0.0..1.0)
RandomDraws == {Float(0, 1), Float(1, 2)}

NoChoice == [read |-> [ok |-> FALSE, line |-> ""], draw |-> Float(0, 1)]

\* the choices instruction ins depends on: the line read, the number drawn
ChoicesOf(ins) ==
    CASE ins.op = "Read" -> {[NoChoice EXCEPT !.read = r] : r \in ReadOutcomes}
      [] ins.op = "Random" -> {[NoChoice EXCEPT !.draw = d] : d \in RandomDraws}
      [] OTHER -> {NoChoice}

\* match self.program[self.ip]
Dispatch(m, table, ins, ch) ==
    CASE ins.op = "Push" -> ExecPush(m, ins.value)
      [] ins.op = "Pop" -> ExecPop(m, ins.pos)
      [] ins.op = "Duplicate" -> ExecDuplicate(m, ins.pos)
      [] ins.op = "Swap" -> ExecSwap(m, ins.pos)
      [] ins.op = "Add" -> ExecAdd(m, ins.pos)
      [] ins.op = "Sub" -> ExecSub(m, ins.pos)
      [] ins.op = "Mul" -> ExecMul(m, ins.pos)
      [] ins.op = "Div" -> ExecDiv(m, ins.pos)
      [] ins.op = "IDiv" -> ExecIDiv(m, ins.pos)
      [] ins.op = "Mod" -> ExecMod(m, ins.pos)
      [] ins.op = "Print" -> ExecPrint(m, ins.pos)
      [] ins.op = "Read" -> ExecRead(m, ins.pos, ch.read)
      [] ins.op = "AToI" -> ExecAToI(m, ins.pos)
      [] ins.op = "FToI" -> ExecFToI(m, ins.pos)
      [] ins.op = "Jump" -> ExecJump(m, table, ins.label, ins.pos)
      [] ins.op = "JumpEq" -> ExecJumpEq(m, table, ins.label, ins.pos)
      [] ins.op = "JumpNotEq" -> ExecJumpNotEq(m, table, ins.label, ins.pos)
      [] ins.op = "JumpGt" -> ExecJumpGt(m, table, ins.label, ins.pos)
      [] ins.op = "JumpLt" -> ExecJumpLt(m, table, ins.label, ins.pos)
      [] ins.op = "JumpGtEq" -> ExecJumpGtEq(m, table, ins.label, ins.pos)
      [] ins.op = "JumpLtEq" -> ExecJumpLtEq(m, table, ins.label, ins.pos)
      [] ins.op = "JumpZero" -> ExecJumpZero(m, table, ins.label, ins.pos)
      [] ins.op = "JumpNotZero" -> ExecJumpNotZero(m, table, ins.label, ins.pos)
      [] ins.op = "JumpNeg" -> ExecJumpNeg(m, table, ins.label, ins.pos)
      [] ins.op = "Return" -> ExecReturn(m, ins.pos)
      [] ins.op = "Exit" -> ExecExit(m)
      [] ins.op = "Cmp" -> ExecCmp(m, ins.value, ins.pos)
      [] ins.op = "CmpInStack" -> ExecCmpInStack(m, ins.pos)
      [] ins.op = "Label" -> ExecLabel(m)
      [] ins.op = "Random" -> ExecRandom(m, ch.draw)
      [] OTHER -> ExecUnimplemented(m)

\* the `self.ip += 1` that ends an iteration no handler returned from
Advance(m) == IF m.pc = "loop" THEN [m EXCEPT !.ip = @ + 1] ELSE m

\* one iteration of the while loop
Iterate(m, table, ins, ch) == Advance(Dispatch(m, table, ins, ch))

\* the machine the loop works on
Machine ==
    [stack |-> stack, return_stack |-> return_stack, ip |-> ip, flags |-> flags,
     stdout |-> stdout, stderr |-> stderr, pc |-> "loop", ev |-> "ok"]

(***************************************************************************)
(* The Symbol Source: Tokenizer::tokenize and Tokenizer::into_symbols.     *)
(* The source text is a sequence of characters, each a string of length 1; *)
(* t is the tokenizer with the locals of tokenize(): code, next (how many  *)
(* characters the for loop has consumed), curr_token, token_type, tokens,  *)
(* line_number and column_number.                                          *)
(***************************************************************************)
\* 'a'..='z' | 'A'..='Z' | '_'
Letters ==
    {"a", "b", "c", "d", "e", "f", "g", "h", "i", "j", "k", "l", "m", "n", "o", "p",
     "q", "r", "s", "t", "u", "v", "w", "x", "y", "z", "A", "B", "C", "D", "E", "F",
     "G", "H", "I", "J", "K", "L", "M", "N", "O", "P", "Q", "R", "S", "T", "U", "V",
     "W", "X", "Y", "Z", "_"}

\* Tokenizer::new() and the locals of tokenize(code) before its first character
TokenizerNew(code) ==
    [code |-> code, next |-> 0, curr_token |-> "", token_type |-> "Unknown",
     tokens |-> <<>>, line_number |-> 1, column_number |-> 1]

\* self.tokens.push(Token { token_type, value: curr_token.clone(), .. })
PushToken(t, type) ==
    [t EXCEPT !.tokens = Append(@, [token_type |-> type, value |-> t.curr_token,
                                    line_number |-> t.line_number,
                                    column_number |-> t.column_number])]

\* curr_token.clear(); token_type = TokenType::Unknown
ClearToken(t) == [t EXCEPT !.curr_token = "", !.token_type = "Unknown"]

\* curr_token.push(c)
PushChar(t, c) == [t EXCEPT !.curr_token = @ \o c]

\* the position update that ends an iteration not left by `continue`
Position(t, c) ==
    IF c = "\n"
    THEN [t EXCEPT !.line_number = @ + 1, !.column_number = 1]
    ELSE [t EXCEPT !.column_number = @ + 1]

\* Error::new(message, "line:column").print(); std::process::exit(1)
TokenizeExit(t, message) ==
    <<"exit", t, Error(message, IntText(t.line_number) \o ":" \o IntText(t.column_number))>>

TokenizeOn(t) == <<"ok", t, Error("", "")>>

\* the arm ' ' | '\n' | '\t'
TokenizeSpace(t, c) ==
    LET trimmed == [t EXCEPT !.curr_token = Trim(@)]
    IN  IF trimmed.curr_token = "" THEN TokenizeOn(Position(trimmed, c))
        ELSE CASE t.token_type \in {"NumericLiteral", "Identifier"} ->
                    TokenizeOn(Position(ClearToken(PushToken(trimmed, t.token_type)), c))
               [] t.token_type = "StringLiteral" ->
                    IF c = "\n" THEN TokenizeExit(trimmed, "Unterminated string literal")
                    ELSE TokenizeOn(PushChar(trimmed, c))
               [] OTHER -> TokenizeOn(Position(ClearToken(trimmed), c))

\* what the comment state would do if the newline that ends a comment went
\* through the position update
TokenizeCommentCountsLine(t, c) ==
    TokenizeOn(IF c = "\n" THEN Position([t EXCEPT !.token_type = "Unknown"], c) ELSE t)

\* the comment state: the character is skipped, a newline ends the comment, and
\* `continue` passes over the position update
TokenizeComment(t, c) ==
    TokenizeOn([t EXCEPT !.token_type = IF c = "\n" THEN "Unknown" ELSE @])

\* one iteration of `for c in code.chars()`: <<"ok", t, _>>, or <<"exit", t,
\* diagnostic>> when the process exits
TokenizeChar(t, c) ==
    IF t.token_type = "Comment"
    THEN TokenizeComment(t, c)
    ELSE CASE IsDigit(c) ->
                TokenizeOn(Position(PushChar(
                    [t EXCEPT !.token_type = IF @ = "Unknown" THEN "NumericLiteral" ELSE @],
                    c), c))
           [] c = "." ->
                IF t.token_type \in {"NumericLiteral", "StringLiteral"}
                THEN TokenizeOn(Position(PushChar(t, c), c))
                ELSE TokenizeExit(t, "Invalid token")
           [] c = "\"" ->
                TokenizeOn(Position(
                    IF t.token_type = "Unknown"
                    THEN [t EXCEPT !.token_type = "StringLiteral"]
                    ELSE IF t.token_type = "StringLiteral"
                    THEN ClearToken(PushToken(t, "StringLiteral"))
                    ELSE t, c))
           [] c \in Letters ->
                TokenizeOn(Position(PushChar(
                    [t EXCEPT !.token_type = IF @ = "Unknown" THEN "Identifier" ELSE @],
                    c), c))
           [] c = ";" -> TokenizeOn(Position([t EXCEPT !.token_type = "Comment"], c))
           [] c \in {" ", "\n", "\t"} -> TokenizeSpace(t, c)
           [] OTHER -> TokenizeOn(Position(PushChar(t, c), c))

\* str::ends_with(c) and str::starts_with(c) for a character c
EndsWith(s, c) == s # "" /\ SubSeq(s, Len(s), Len(s)) = c

StartsWith(s, c) == s # "" /\ Head(s) = c

\* the match of into_symbols on one token: the symbols it adds
IntoSymbol(token) ==
    LET symbol(type, value) ==
            <<[symbol_type |-> type, value |-> value,
               line_number |-> token.line_number,
               column_number |-> token.column_number]>>
    IN  CASE token.token_type = "NumericLiteral" ->
                IF EndsWith(token.value, ".") THEN symbol("Float", token.value \o "0")
                ELSE IF DotAt(token.value, 1) # 0 THEN symbol("Float", token.value)
                ELSE symbol("Integer", token.value)
          [] token.token_type = "Identifier" ->
                IF EndsWith(token.value, ":") THEN symbol("Label", token.value)
                ELSE IF StartsWith(token.value, "@")
                THEN symbol("LabelReference", token.value)
                ELSE symbol("Instruction", token.value)
          [] token.token_type = "StringLiteral" -> symbol("String", token.value)
          [] OTHER -> <<>>

\* Tokenizer::into_symbols
RECURSIVE IntoSymbolsFrom(_, _)
IntoSymbolsFrom(tokens, k) ==
    IF k > Len(tokens) THEN <<>>
    ELSE IntoSymbol(tokens[k]) \o IntoSymbolsFrom(tokens, k + 1)

(***************************************************************************)
(* The actions: execute() runs compile(), analyze_labels() and the loop.   *)
(***************************************************************************)
\* self.compile(): a diagnostic makes compile() return, and execute() goes on
Compile ==
    /\ pc = "compile"
    /\ \E c \in {CompileAll(symbols)} :
           /\ program' = c.program
           /\ stderr' = c.stderr
           /\ compiled' = IF c.result = "panic" THEN "none" ELSE c.result
           /\ pc' = IF c.result = "panic" THEN "panic" ELSE "analyze_labels"
    /\ UNCHANGED <<symbols, labels, stack, return_stack, ip, flags, stdout, tokenizer,
                   last>>

\* self.analyze_labels()
AnalyzeLabels ==
    /\ pc = "analyze_labels"
    /\ labels' = AnalyzeFrom(program, 0, labels)
    /\ pc' = "loop"
    /\ UNCHANGED <<symbols, program, stack, return_stack, ip, flags, stdout,
                   stderr, compiled, tokenizer, last>>

\* a ret needs its return address; 0 stands for the addresses below the deepest
\* MaxRet, which the model does not keep (a return address is an index + 1,
\* never 0)
Returnable ==
    (program[ip + 1].op = "Return" /\ return_stack # <<>>) => Top(return_stack) # 0

\* the deepest MaxRet return addresses of rs, the older ones forgotten
Window(rs) == <<0>> \o SubSeq(rs, 3, Len(rs))

\* one iteration of `while self.ip < self.program.len()`
Step ==
    /\ pc = "loop"
    /\ ip < Len(program)
    /\ Returnable
    /\ \E ch \in ChoicesOf(program[ip + 1]) :
          \E m \in {Iterate(Machine, labels, program[ip + 1], ch)} :
              /\ Len(m.return_stack) <= MaxRet
              /\ stack' = m.stack
              /\ return_stack' = m.return_stack
              /\ ip' = m.ip
              /\ flags' = m.flags
              /\ stdout' = m.stdout
              /\ stderr' = m.stderr
              /\ pc' = m.pc
              /\ last' = [ip |-> ip, ev |-> m.ev]
    /\ UNCHANGED <<symbols, program, labels, compiled, tokenizer>>

\* the loop condition fails: execute() returns
LoopEnd ==
    /\ pc = "loop"
    /\ ip >= Len(program)
    /\ pc' = "end"
    /\ UNCHANGED <<symbols, program, labels, stack, return_stack, ip, flags,
                   stdout, stderr, compiled, tokenizer, last>>

Next == Compile \/ AnalyzeLabels \/ Step \/ LoopEnd

\* an iteration whose taken jump nests deeper than MaxRet: the Vec grows, and
\* the model keeps its top
Deepen ==
    /\ pc = "loop"
    /\ ip < Len(program)
    /\ \E m \in {Iterate(Machine, labels, program[ip + 1], NoChoice)} :
           /\ Len(m.return_stack) > MaxRet
           /\ stack' = m.stack
           /\ return_stack' = Window(m.return_stack)
           /\ ip' = m.ip
           /\ flags' = m.flags
           /\ stdout' = m.stdout
           /\ stderr' = m.stderr
           /\ pc' = m.pc
           /\ last' = [ip |-> ip, ev |-> m.ev]
    /\ UNCHANGED <<symbols, program, labels, compiled, tokenizer>>

\* the loop followed through jumps nested to any depth
DeepNext == Compile \/ AnalyzeLabels \/ Step \/ Deepen \/ LoopEnd

(***************************************************************************)
(* main(): tokenize the source, turn the tokens into symbols, construct    *)
(* the machine and execute it.                                             *)
(***************************************************************************)
\* one iteration of the for loop of tokenize()
Tokenize ==
    /\ pc = "tokenize"
    /\ tokenizer.next < Len(tokenizer.code)
    /\ \E r \in {TokenizeChar([tokenizer EXCEPT !.next = @ + 1],
                              tokenizer.code[tokenizer.next + 1])} :
           /\ tokenizer' = r[2]
           /\ pc' = IF r[1] = "exit" THEN "error" ELSE "tokenize"
           /\ stderr' = IF r[1] = "exit" THEN Append(stderr, r[3]) ELSE stderr
    /\ UNCHANGED <<symbols, program, labels, stack, return_stack, ip, flags,
                   stdout, compiled, last>>

\* what the end of the characters would do if it emitted a numeric or
\* identifier token still being read before the EOF token
TokenizeEndFlushes ==
    /\ pc = "tokenize"
    /\ tokenizer.next = Len(tokenizer.code)
    /\ \E t \in {IF /\ tokenizer.token_type \in {"NumericLiteral", "Identifier"}
                    /\ tokenizer.curr_token # ""
                 THEN PushToken(tokenizer, tokenizer.token_type)
                 ELSE tokenizer} :
           tokenizer' = [t EXCEPT !.tokens =
                Append(@, [token_type |-> "EOF", value |-> "",
                           line_number |-> t.line_number,
                           column_number |-> t.column_number])]
    /\ pc' = "into_symbols"
    /\ UNCHANGED <<symbols, program, labels, stack, return_stack, ip, flags,
                   stdout, stderr, compiled, last>>

\* the end of the characters: tokenize() pushes the EOF token and returns
TokenizeEnd ==
    /\ pc = "tokenize"
    /\ tokenizer.next = Len(tokenizer.code)
    /\ tokenizer' = [tokenizer EXCEPT !.tokens =
            Append(@, [token_type |-> "EOF", value |-> "",
                       line_number |-> tokenizer.line_number,
                       column_number |-> tokenizer.column_number])]
    /\ pc' = "into_symbols"
    /\ UNCHANGED <<symbols, program, labels, stack, return_stack, ip, flags,
                   stdout, stderr, compiled, last>>

\* tokenizer.into_symbols() and StackFkVM::new(symbols)
IntoSymbols ==
    /\ pc = "into_symbols"
    /\ symbols' = IntoSymbolsFrom(tokenizer.tokens, 1)
    /\ pc' = "compile"
    /\ UNCHANGED <<tokenizer, program, labels, stack, return_stack, ip, flags,
                   stdout, stderr, compiled, last>>

\* main()
MainNext == Tokenize \/ TokenizeEnd \/ IntoSymbols \/ Next

(***************************************************************************)
(* The symbol sequences the machine is constructed with.                   *)
(***************************************************************************)
\* Symbol::new for the k-th symbol, one symbol a line
Symbol(tok, k) ==
    [symbol_type |-> tok[1], value |-> tok[2], line_number |-> k, column_number |-> 1]

Symbols(toks) == [k \in 1..Len(toks) |-> Symbol(toks[k], k)]

InsSym(name) == <<"Instruction", name>>

IntSym(text) == <<"Integer", text>>

FloatSym(text) == <<"Float", text>>

StringSym(text) == <<"String", text>>

LabelSym(text) == <<"Label", text>>

RefSym(text) == <<"LabelReference", text>>

RECURSIVE Flatten(_)
Flatten(ss) == IF ss = <<>> THEN <<>> ELSE Head(ss) \o Flatten(Tail(ss))

\* the sequences of at most n elements of S
RECURSIVE SeqsUpTo(_, _)
SeqsUpTo(S, n) ==
    IF n = 0 THEN {<<>>}
    ELSE LET shorter == SeqsUpTo(S, n - 1)
         IN  shorter \cup {Append(s, x) : s \in shorter, x \in S}

JumpNames == DOMAIN JumpOpcode

\* the statements of the general family, the malformed ones among them
GeneralStmts ==
    {<<InsSym("push"), l>> : l \in {IntSym("1"), IntSym("2"), FloatSym("1.5"), StringSym("a")}}
    \cup {<<InsSym("cmp"), l>> : l \in {IntSym("1"), StringSym("a")}}
    \cup {<<InsSym(j), r>> : j \in {"jmp", "jeq", "jnz", "jneg"}, r \in {RefSym("@L"), RefSym("@Z")}}
    \cup {<<InsSym(z)>> : z \in {"pop", "print", "add", "sub", "div", "scmp", "ret",
                              "exit", "time"}}
    \cup {<<LabelSym("L:")>>, <<InsSym("bogus")>>, <<InsSym("push")>>, <<InsSym("jmp")>>,
          <<InsSym("jmp"), InsSym("pop")>>, <<IntSym("1")>>, <<RefSym("@L")>>}

GeneralPrograms == {Flatten(p) : p \in SeqsUpTo(GeneralStmts, MaxStmts)}

\* the layout jmp @L; <print "skipped">; L:; <print "reached">; ret; <print "after">
CallRoundTrip ==
    <<InsSym("jmp"), RefSym("@L"), InsSym("push"), StringSym("skipped"), InsSym("print"), LabelSym("L:"),
      InsSym("push"), StringSym("reached"), InsSym("print"), InsSym("ret"),
      InsSym("push"), StringSym("after"), InsSym("print")>>

\* what sets the flags before a jump: nothing, or a compare that finds the top
\* equal to, less than or greater than the literal
Preludes ==
    {<<>>} \cup {<<InsSym("push"), IntSym(x), InsSym("cmp"), IntSym("1")>> : x \in {"0", "1", "2"}}

\* a prelude, one jump to a defined (A) or an undefined (Z) label, a statement
\* after the jump, the label A and a statement after it
JumpPrograms ==
    {p \o <<InsSym(j), r>> \o x \o <<LabelSym("A:")>> \o y :
        p \in Preludes, j \in JumpNames, r \in {RefSym("@A"), RefSym("@Z")},
        x \in {<<InsSym("exit")>>, <<InsSym("ret")>>, <<InsSym("pop")>>, <<InsSym("jmp"), RefSym("@A")>>},
        y \in {<<>>, <<InsSym("ret")>>, <<InsSym("exit")>>, <<InsSym("jmp"), RefSym("@A")>>,
               <<InsSym("jnz"), RefSym("@A")>>, <<InsSym("exit"), InsSym("pop")>>}}

\* two nested calls and their returns
NestedPrograms ==
    {<<InsSym(j1), RefSym("@A"), InsSym("exit"), LabelSym("A:"), InsSym(j2), RefSym("@B"), InsSym("ret"),
       LabelSym("B:"), InsSym("ret")>> : j1 \in {"jmp", "jnz"}, j2 \in {"jmp", "jnz", "jeq"}}

\* loops closed by a taken jump
LoopPrograms ==
    {<<LabelSym("L:")>> \o b \o <<InsSym(j), RefSym("@L")>> :
        b \in {<<>>, <<InsSym("push"), IntSym("1")>>, <<InsSym("push"), IntSym("1"), InsSym("print")>>},
        j \in {"jmp", "jnz"}}

\* labels defined once, twice or never, before and after the jumps to them
LabelStmts ==
    {<<LabelSym("A:")>>, <<LabelSym("B:")>>, <<InsSym("jmp"), RefSym("@A")>>,
     <<InsSym("jmp"), RefSym("@B")>>, <<InsSym("jeq"), RefSym("@A")>>, <<InsSym("exit")>>}

LabelPrograms == {Flatten(p) : p \in SeqsUpTo(LabelStmts, 3)}

ControlPrograms ==
    {CallRoundTrip} \cup JumpPrograms \cup NestedPrograms \cup LoopPrograms
    \cup LabelPrograms

ArithValues ==
    {IntSym("0"), IntSym("2"), IntSym("3"), IntSym("7"), IntSym("-7"), FloatSym("0.0"), FloatSym("2.0"),
     FloatSym("2.5"), FloatSym("-7.0"), StringSym("ab"), StringSym("cd")}

\* an instruction that finds too few values on the stack, the flags set or not,
\* and a push and a print after it
UnderflowPrograms ==
    {p \o <<InsSym(o), InsSym("push"), IntSym("2"), InsSym("print")>> :
        p \in {<<>>, <<InsSym("push"), IntSym("7")>>, <<InsSym("push"), StringSym("ab")>>,
               <<InsSym("push"), IntSym("7"), InsSym("cmp"), IntSym("2")>>,
               <<InsSym("push"), IntSym("7"), InsSym("cmp"), IntSym("2"), InsSym("pop")>>},
        o \in {"add", "sub", "mul", "div", "idiv", "mod", "scmp", "pop", "print"}}

CompareValues ==
    {IntSym("2"), IntSym("3"), FloatSym("2.0"), FloatSym("2.5"), StringSym("ab"),
     StringSym("cd")}

\* two comparisons in a row: push x; cmp y; push z; scmp
ComparePrograms ==
    {<<InsSym("push"), x, InsSym("cmp"), y, InsSym("push"), z, InsSym("scmp")>> :
        x \in CompareValues, y \in CompareValues, z \in CompareValues}

\* a comparison of Integers or Strings, then 0.0 / 0.0 compared with a Float
NaNPrograms ==
    {<<InsSym("push"), x, InsSym("cmp"), x, InsSym("push"), FloatSym("0.0"),
       InsSym("push"), FloatSym("0.0"), InsSym("div"), InsSym("cmp"), FloatSym("2.0")>> :
        x \in {IntSym("2"), StringSym("ab")}}

\* push x; push y; and a binary instruction or a compare
ArithPrograms ==
    {<<InsSym("push"), x, InsSym("push"), y, InsSym(o)>> :
        x \in ArithValues, y \in ArithValues,
        o \in {"add", "sub", "mul", "div", "idiv", "mod", "scmp"}}
    \cup {<<InsSym("push"), x, InsSym("cmp"), y>> : x \in ArithValues, y \in ArithValues}
    \cup {<<InsSym("cmp"), y>> : y \in ArithValues}
    \cup UnderflowPrograms
    \cup ComparePrograms
    \cup NaNPrograms

\* StackFkVM::new(symbols)
New(programs) ==
    /\ symbols \in {Symbols(p) : p \in programs}
    /\ program = <<>>
    /\ labels = <<>>
    /\ stack = <<>>
    /\ return_stack = <<>>
    /\ ip = 0
    /\ flags = NoFlags
    /\ pc = "compile"
    /\ stdout = <<>>
    /\ stderr = <<>>
    /\ compiled = "none"
    /\ tokenizer = TokenizerNew(<<>>)
    /\ last = [ip |-> -1, ev |-> "none"]

Init == New(GeneralPrograms)

Spec == Init /\ [][Next]_vars

ControlInit == New(ControlPrograms)

ControlSpec == ControlInit /\ [][Next]_vars

\* loops closed by a taken jump whose body leaves the value stack as it found it
SpinPrograms ==
    {<<LabelSym("L:"), InsSym("push"), x, InsSym("pop"), InsSym(j), RefSym("@L")>> :
        x \in {IntSym("1"), StringSym("a")}, j \in {"jmp", "jnz"}}

\* the programs whose runs are followed to their end: the round trip, the nested
\* calls, the loops, and a jump of each kind over an exit or to the last label
TerminationPrograms ==
    {CallRoundTrip} \cup NestedPrograms \cup SpinPrograms
    \cup {p \o <<InsSym(j), RefSym("@A")>> \o x :
            p \in Preludes, j \in {"jmp", "jeq", "jlt", "jnz"},
            x \in {<<InsSym("exit"), LabelSym("A:"), InsSym("ret")>>, <<LabelSym("A:")>>}}

TerminationInit == New(TerminationPrograms)

\* the loop is one thread that runs until execute() returns
FairControlSpec == TerminationInit /\ [][DeepNext]_vars /\ WF_vars(DeepNext)

ArithInit == New(ArithPrograms)

\* the integer literals of the opcode family
OpcodeIntegers == {"5", "0", "-3"}

\* what is on the stack when the opcode runs
OpcodePreludes ==
    {<<InsSym("push"), IntSym(v)>> : v \in OpcodeIntegers}
    \cup {<<InsSym("push"), FloatSym("2.5")>>,
          <<InsSym("push"), IntSym("5"), InsSym("push"), IntSym("7")>>}

\* the zero-operand names compile() matches, and names it could be expected to
OpcodeNames ==
    DOMAIN ZeroOperand \cup {"dup", "duplicate", "swap", "ftoi", "itoa", "itof"}

\* a prelude, one zero-operand opcode, and nothing or a pop after it
OpcodePrograms ==
    {p \o <<InsSym(n)>> \o x :
        p \in OpcodePreludes, n \in OpcodeNames, x \in {<<>>, <<InsSym("pop")>>}}

OpcodeInit == New(OpcodePrograms)

OpcodeSpec == OpcodeInit /\ [][Next]_vars

ArithSpec == ArithInit /\ [][Next]_vars

\* the characters of a text
RECURSIVE Chars(_)
Chars(s) == IF s = "" THEN <<>> ELSE <<Head(s)>> \o Chars(Tail(s))

\* lines of source: statements, numbers spelt in several ways, a string, a
\* label and a jump to it, comments (two of them on two lines in the last
\* entry), and text the tokenizer rejects
SourceLines ==
    {"push 1", "push 1-2", "push 1.2.3", "push 1.", "push 2.5", "push -7", "cmp 12ab",
     "push \"a b\"", "print", "; c", "pop ; c", "L:", "jmp @L", "push .5", "push \"ab",
     "push\t1", "; c\n; d"}

\* up to MaxLines lines, each ended by a newline but, in some texts, the last
SourceTexts ==
    {Flatten([k \in 1..Len(ls) |->
                Chars(ls[k]) \o (IF k = Len(ls) /\ ~closed THEN <<>> ELSE <<"\n">>)]) :
        ls \in SeqsUpTo(SourceLines, MaxLines) \ {<<>>}, closed \in BOOLEAN}

\* main() before tokenizer.tokenize(&contents)
MainInit ==
    /\ tokenizer \in {TokenizerNew(code) : code \in SourceTexts}
    /\ symbols = <<>>
    /\ program = <<>>
    /\ labels = <<>>
    /\ stack = <<>>
    /\ return_stack = <<>>
    /\ ip = 0
    /\ flags = NoFlags
    /\ pc = "tokenize"
    /\ stdout = <<>>
    /\ stderr = <<>>
    /\ compiled = "none"
    /\ last = [ip |-> -1, ev |-> "none"]

MainSpec == MainInit /\ [][MainNext]_vars

(***************************************************************************)
(* Vocabulary of the properties.                                           *)
(***************************************************************************)
Ended == pc \in {"end", "exit", "error", "panic"}

EndedNormally == pc \in {"end", "exit"}

InLoop == pc \notin {"compile", "analyze_labels"}

\* the loop is about to run the instruction at ip
Fetching == pc = "loop" /\ ip < Len(program)

Current == program[ip + 1]

JumpOps == {JumpOpcode[j] : j \in DOMAIN JumpOpcode}

IsPrefix(s, t) == Len(s) <= Len(t) /\ s = SubSeq(t, 1, Len(s))

\* the flag condition the instruction set gives each jump
Condition(op, f) ==
    CASE op = "Jump" -> TRUE
      [] op = "JumpEq" -> f.equal
      [] op = "JumpNotEq" -> f.not_equal
      [] op = "JumpGt" -> f.greater_than
      [] op = "JumpLt" -> f.less_than
      [] op = "JumpGtEq" -> f.greater_than_or_equal
      [] op = "JumpLtEq" -> f.less_than_or_equal
      [] op = "JumpZero" -> f.zero
      [] op = "JumpNotZero" -> ~f.zero
      [] op = "JumpNeg" -> f.negative

\* the loop is about to run a jump whose condition holds
TakingJump == Fetching /\ Current.op \in JumpOps /\ Condition(Current.op, flags)

IsNumber(v) == v.tag \in {"Integer", "Float"}

AsFloat(v) == IF v.tag = "Integer" THEN IToF32(v.i) ELSE v

\* b OP a, the operand pushed earlier on the left
LeftToRight(op, b, a) ==
    IF a.tag = "Integer" /\ b.tag = "Integer"
    THEN CASE op = "Sub" -> Integer(b.i - a.i)
           [] op \in {"Div", "IDiv"} -> Integer(TruncDiv(b.i, a.i))
           [] op = "Mod" -> Integer(TruncRem(b.i, a.i))
    ELSE CASE op = "Sub" -> FSub(AsFloat(b), AsFloat(a))
           [] op = "Div" -> FDiv(AsFloat(b), AsFloat(a))
           [] op = "IDiv" -> Integer(FloorToI32(FDiv(AsFloat(b), AsFloat(a))))
           [] op = "Mod" -> FRem(AsFloat(b), AsFloat(a))

(***************************************************************************)
(* C1 (ControlSpec).                                                       *)
(***************************************************************************)
IsCallRoundTrip == symbols = Symbols(CallRoundTrip)

\* C1, as claimed: the jump-as-call round trip prints "reached" and then
\* "after", and never "skipped".
C1_PrintsReachedThenAfter ==
    IsCallRoundTrip =>
        /\ IsPrefix(stdout, <<"reached", "after">>)
        /\ Ended => stdout = <<"reached", "after">>

\* C1, amended: ret resumes at the instruction after the jump, which is the
\* print of "skipped": the run prints "reached", "skipped", "reached", then the
\* second ret finds the return-address stack empty, emits one diagnostic and
\* halts; "after" is never printed.
C1_PrintsReachedSkippedReached ==
    IsCallRoundTrip =>
        /\ IsPrefix(stdout, <<"reached", "skipped", "reached">>)
        /\ Ended =>
            /\ pc = "error"
            /\ stdout = <<"reached", "skipped", "reached">>
            /\ stderr = <<Error("Cannot return anything from the main function!",
                                "10:1")>>

C1_Witness ==
    /\ IsCallRoundTrip
    /\ pc = "error"
    /\ stdout = <<"reached", "skipped", "reached">>
    /\ return_stack = <<>>

(***************************************************************************)
(* C2 (Spec).                                                              *)
(***************************************************************************)
\* C2: after compile() has emitted a diagnostic no instruction runs: the value
\* stack, the return-address stack, the flags and ip keep their initial values
\* and nothing is printed.
C2_CompileFailureStopsExecution ==
    compiled = "error" =>
        /\ ip = 0
        /\ stack = <<>>
        /\ return_stack = <<>>
        /\ flags = NoFlags
        /\ stdout = <<>>
        /\ last.ev = "none"

(***************************************************************************)
(* C3 (Spec).                                                              *)
(***************************************************************************)
\* C3: a run emits at most one diagnostic.
C3_AtMostOneDiagnostic == Len(stderr) <= 1

(***************************************************************************)
(* C4 (ControlSpec).                                                       *)
(***************************************************************************)
\* C4: a taken jump of any variant whose label is not in the label table emits
\* one diagnostic naming the label and stops the run, ip left on the jump.
C4_UnresolvedJumpIsFatal ==
    [][(TakingJump /\ Current.label \notin DOMAIN labels) =>
            /\ pc' = "error"
            /\ ip' = ip
            /\ stderr' = Append(stderr,
                    Error("Unknown label: " \o Current.label, Current.pos))]_vars

(***************************************************************************)
(* C5 (ArithSpec).                                                         *)
(***************************************************************************)
\* C5: sub, div, idiv and mod on two numbers, a the top and b the next value,
\* replace them by b OP a for every pairing of Integer and Float.
C5_EarlierOperandIsLeft ==
    [][(/\ Fetching
        /\ Current.op \in {"Sub", "Div", "IDiv", "Mod"}
        /\ Len(stack) >= 2
        /\ IsNumber(Top(stack)) /\ IsNumber(Next2(stack))
        /\ pc' = "loop") =>
            stack' = Append(Drop(stack, 2),
                            LeftToRight(Current.op, Next2(stack), Top(stack)))]_vars

(***************************************************************************)
(* C6 (ControlSpec).                                                       *)
(***************************************************************************)
\* C6, as claimed: in the loop 0 <= ip <= Program.length, and the run ends
\* normally exactly when ip reaches Program.length.
C6_EndsNormallyOnlyAtLength ==
    InLoop =>
        /\ ip \in 0..Len(program)
        /\ EndedNormally => ip = Len(program)
        /\ (Ended /\ ip = Len(program)) => EndedNormally

\* C6, amended: in the loop 0 <= ip <= Program.length, and the run ends
\* normally exactly when ip reaches Program.length or an exit executes (ip is
\* then still on the exit).
C6_IpInRange ==
    InLoop =>
        /\ ip \in 0..Len(program)
        /\ pc = "end" => ip = Len(program)
        /\ pc = "exit" => (ip < Len(program) /\ Current.op = "Exit")
        /\ (Ended /\ ip = Len(program)) => pc = "end"

\* a jump to the label that ends the program has run the loop out
C6_Witness ==
    /\ pc = "end"
    /\ ip = Len(program)
    /\ return_stack # <<>>
    /\ last.ev = "taken"

(***************************************************************************)
(* C7 (FairControlSpec).                                                   *)
(***************************************************************************)
\* C7, as claimed: a run of a well-formed program in which no fatal condition
\* occurs terminates.
C7_Terminates == <>(Ended \/ stderr # <<>>)

\* C7, amended: a run in which no fatal condition occurs terminates unless its
\* taken jumps nest without bound: a run that never ends (L: jmp @L) grows the
\* return-address stack for ever.
C7_TerminatesOrNestsJumps ==
    <>(Ended \/ stderr # <<>> \/ Len(return_stack) >= MaxRet)

\* a jlt was taken, its ret came back and the exit after the jump ended the run
C7_Witness ==
    /\ pc = "exit"
    /\ compiled = "ok"
    /\ stderr = <<>>
    /\ return_stack = <<>>
    /\ last.ev = "exit"
    /\ program[ip].op = "JumpLt"
    /\ flags.less_than

(***************************************************************************)
(* C8 (ArithSpec).                                                         *)
(***************************************************************************)
\* C8: a cmp or scmp that completes leaves the value stack as it was; it
\* changes the flags only (and moves ip to the next instruction).
C8_CompareKeepsStack ==
    [][(Fetching /\ Current.op \in {"Cmp", "CmpInStack"} /\ pc' = "loop") =>
            /\ stack' = stack
            /\ return_stack' = return_stack
            /\ stdout' = stdout
            /\ stderr' = stderr
            /\ ip' = ip + 1]_vars

C8_Witness ==
    /\ last.ev = "ok"
    /\ program[last.ip + 1].op = "CmpInStack"
    /\ pc = "loop"
    /\ Len(stack) = 2
    /\ Top(stack) # Next2(stack)
    /\ flags.less_than

(***************************************************************************)
(* C9 (ControlSpec).                                                       *)
(***************************************************************************)
\* C9: a taken jump with a resolved label pushes its own index + 1, once, onto
\* the return-address stack and transfers control; a conditional jump that is
\* not taken leaves both stacks and the flags alone and moves ip on by 1.
C9_TakenJumpPushesReturnAddress ==
    [][(Fetching /\ Current.op \in JumpOps) =>
            IF Condition(Current.op, flags)
            THEN Current.label \in DOMAIN labels =>
                    /\ return_stack' = Append(return_stack, ip + 1)
                    /\ ip' = labels[Current.label] + 1
                    /\ pc' = "loop"
                    /\ stack' = stack
                    /\ flags' = flags
            ELSE /\ return_stack' = return_stack
                 /\ stack' = stack
                 /\ flags' = flags
                 /\ ip' = ip + 1
                 /\ pc' = "loop"
                 /\ stderr' = stderr]_vars

C9_Witness ==
    /\ last.ev = "taken"
    /\ program[last.ip + 1].op = "JumpLt"
    /\ Top(return_stack) = last.ip + 1
    /\ ip = labels["A"] + 1

(***************************************************************************)
(* C10 (ControlSpec).                                                      *)
(***************************************************************************)
\* C10: ret pops the most recently pushed return address r and the loop goes
\* on at index r, right after the jump (at r - 1) that pushed it; with an empty
\* return-address stack ret emits one diagnostic and halts, the state unchanged.
C10_ReturnResumesAfterJump ==
    [][(Fetching /\ Current.op = "Return") =>
            IF return_stack # <<>>
            THEN /\ return_stack' = Drop(return_stack, 1)
                 /\ ip' = Top(return_stack)
                 /\ program[Top(return_stack)].op \in JumpOps
                 /\ pc' = "loop"
                 /\ stack' = stack
                 /\ flags' = flags
                 /\ stderr' = stderr
            ELSE /\ pc' = "error"
                 /\ stderr' = Append(stderr,
                        Error("Cannot return anything from the main function!",
                              Current.pos))
                 /\ ip' = ip
                 /\ stack' = stack
                 /\ return_stack' = return_stack
                 /\ flags' = flags
                 /\ stdout' = stdout]_vars

C10_Witness ==
    /\ last.ev = "ret"
    /\ return_stack # <<>>
    /\ ip > Top(return_stack)
    /\ program[ip].op \in JumpOps

(***************************************************************************)
(* C11 (OpcodeSpec).                                                       *)
(***************************************************************************)
\* C11: for an Integer v the run of push v; dup ends with the value stack
\* [v, v] and the run of push v; dup; pop with [v], no diagnostic emitted.
C11_PushDupPop ==
    \A v \in OpcodeIntegers :
        LET value == Integer(ParseI32(v)[2])
            pushDup == <<InsSym("push"), IntSym(v), InsSym("dup")>>
        IN  /\ (Ended /\ symbols = Symbols(pushDup)) =>
                    (stack = <<value, value>> /\ stderr = <<>>)
            /\ (Ended /\ symbols = Symbols(pushDup \o <<InsSym("pop")>>)) =>
                    (stack = <<value>> /\ stderr = <<>>)

(***************************************************************************)
(* C12 (OpcodeSpec).                                                       *)
(***************************************************************************)
\* the zero-operand opcodes the specification lists and their instructions
ListedOpcode ==
    ZeroOperand @@ ("dup" :> "Duplicate") @@ ("swap" :> "Swap") @@ ("ftoi" :> "FToI")

\* C12: compile() accepts every listed zero-operand opcode and appends its
\* Instruction at once; Duplicate, Swap and FToI among them.
C12_ListedOpcodesCompile ==
    \A p \in OpcodePreludes, n \in DOMAIN ListedOpcode :
        (pc # "compile" /\ symbols = Symbols(p \o <<InsSym(n)>>)) =>
            /\ compiled = "ok"
            /\ Len(program) = Len(p) \div 2 + 1
            /\ program[Len(program)].op = ListedOpcode[n]

\* the instruction the loop ran last
Ran == program[last.ip + 1]

\* both operands of a binary instruction are on the stack
TwoOperands == Fetching /\ Len(stack) >= 2

(***************************************************************************)
(* C13 (ArithSpec).                                                        *)
(***************************************************************************)
IsAbCdAdd ==
    symbols = Symbols(<<InsSym("push"), StringSym("ab"), InsSym("push"), StringSym("cd"), InsSym("add")>>)

\* C13, as claimed: push "ab"; push "cd"; add leaves String("cdab") on top of
\* the value stack.
C13_AbCdGivesCdab == (IsAbCdAdd /\ Ended) => stack = <<String("cdab")>>

\* C13, amended: push "ab"; push "cd"; add leaves String("abcd"), the String
\* pushed earlier first (b followed by a), and no diagnostic.
C13_AbCdGivesAbcd ==
    (IsAbCdAdd /\ Ended) => (stack = <<String("abcd")>> /\ stderr = <<>> /\ pc = "end")

C13_Witness == IsAbCdAdd /\ pc = "end" /\ Ran.op = "Add" /\ Len(stack) = 1

(***************************************************************************)
(* C14 (ArithSpec).                                                        *)
(***************************************************************************)
\* C14: add with String t on top and String s below it replaces both by the
\* one String s followed by t.
C14_AddConcatenatesEarlierFirst ==
    [][(/\ TwoOperands
        /\ Current.op = "Add"
        /\ Top(stack).tag = "String" /\ Next2(stack).tag = "String") =>
            /\ stack' = Append(Drop(stack, 2),
                               String(Next2(stack).s \o Top(stack).s))
            /\ pc' = "loop"
            /\ stderr' = stderr]_vars

C14_Witness ==
    /\ last.ev = "ok"
    /\ Ran.op = "Add"
    /\ stack = <<String("cdab")>>
    /\ program[1].value = String("cd")

(***************************************************************************)
(* C15 (ArithSpec).                                                        *)
(***************************************************************************)
\* C15: sub with Integer y on top and Integer x below it replaces both by
\* Integer(x - y): 3 and 2 give 1, 2 and 3 give -1.
C15_SubIntegers ==
    [][(/\ TwoOperands
        /\ Current.op = "Sub"
        /\ Top(stack).tag = "Integer" /\ Next2(stack).tag = "Integer") =>
            /\ stack' = Append(Drop(stack, 2),
                               Integer(Next2(stack).i - Top(stack).i))
            /\ pc' = "loop"
            /\ stderr' = stderr]_vars

C15_Witness ==
    /\ last.ev = "ok"
    /\ Ran.op = "Sub"
    /\ program[1].value = Integer(2)
    /\ program[2].value = Integer(3)
    /\ stack = <<Integer(-1)>>

\* the step appends one diagnostic, positioned at the instruction it ran
OneDiagnostic ==
    /\ Len(stderr') = Len(stderr) + 1
    /\ SubSeq(stderr', 1, Len(stderr)) = stderr
    /\ stderr'[Len(stderr')].pos = Current.pos

BinaryOps == {"Add", "Sub", "Mul", "Div", "IDiv", "Mod"}

(***************************************************************************)
(* C16 (ArithSpec).                                                        *)
(***************************************************************************)
\* the instruction at ip finds too few values on the stack
Underflowing ==
    /\ Fetching
    /\ \/ Current.op \in BinaryOps \cup {"CmpInStack"} /\ Len(stack) < 2
       \/ Current.op \in {"Pop", "Print"} /\ stack = <<>>

\* C16: a binary instruction or scmp with fewer than two values, and pop or
\* print with none, emits one diagnostic and halts: no step follows, nothing is
\* printed, and both stacks and the flags are as before the instruction.
C16_UnderflowHalts ==
    [][/\ pc # "error"
       /\ Underflowing =>
            /\ OneDiagnostic
            /\ pc' = "error"
            /\ stdout' = stdout
            /\ stack' = stack
            /\ return_stack' = return_stack
            /\ flags' = flags]_vars

C16_Witness ==
    /\ pc = "error"
    /\ Ran.op = "Mul"
    /\ stack = <<Integer(7)>>
    /\ flags.greater_than
    /\ stderr = <<Error("Not enough operands for MUL instruction", Ran.pos)>>

(***************************************************************************)
(* C17 (ArithSpec).                                                        *)
(***************************************************************************)
\* C17: cmp on an empty value stack emits one diagnostic and the run stops.
C17_CmpOnEmptyIsDiagnosed ==
    [][(Fetching /\ Current.op = "Cmp" /\ stack = <<>>) =>
            (OneDiagnostic /\ pc' = "error")]_vars

(***************************************************************************)
(* C18 (ArithSpec).                                                        *)
(***************************************************************************)
\* the tag the specification gives the result of a pairing of number tags
PromotedTag(a, b) ==
    IF a.tag = "Integer" /\ b.tag = "Integer" THEN "Integer" ELSE "Float"

\* an Integer division or remainder by the Integer 0
ZeroDivisor ==
    /\ Current.op \in {"Div", "IDiv", "Mod"}
    /\ Top(stack) = Integer(0)
    /\ Next2(stack).tag = "Integer"

\* the step replaces the two operands by one value of tag tg
PushesOne(tg) ==
    /\ pc' = "loop"
    /\ stderr' = stderr
    /\ Len(stack') = Len(stack) - 1
    /\ SubSeq(stack', 1, Len(stack) - 2) = Drop(stack, 2)
    /\ Top(stack').tag = tg

\* the step halts on a type mismatch, the operands popped and nothing pushed
HaltsOnMismatch ==
    /\ pc' = "error"
    /\ OneDiagnostic
    /\ SubSeq(stderr'[Len(stderr')].message, 1, 13) = "Type mismatch"
    /\ stack' = Drop(stack, 2)

\* C18: add, sub, mul, div and mod give Integer for two Integers and Float for
\* any other pairing of numbers, in either order (an Integer division by 0 gives
\* no result at all); add gives String for two Strings; every other pairing,
\* under idiv too, is a type mismatch that halts with no result pushed.
C18_ResultTyping ==
    [][(TwoOperands /\ Current.op \in BinaryOps) =>
            LET a == Top(stack)
                b == Next2(stack)
            IN  IF IsNumber(a) /\ IsNumber(b)
                THEN \/ Current.op = "IDiv"
                     \/ PushesOne(PromotedTag(a, b))
                     \/ ZeroDivisor /\ pc' = "panic"
                ELSE IF Current.op = "Add" /\ a.tag = "String" /\ b.tag = "String"
                THEN PushesOne("String")
                ELSE HaltsOnMismatch]_vars

C18_Witness ==
    /\ last.ev = "ok"
    /\ Ran.op = "Div"
    /\ program[1].value.tag = "Integer"
    /\ program[2].value.tag = "Float"
    /\ Top(stack).tag = "Float"
    /\ Top(stack) = Float(14, 5)

(***************************************************************************)
(* C19 (ArithSpec).                                                        *)
(***************************************************************************)
\* i is the greatest integer not above the finite q
IsFloorOf(i, q) == i * q.d <= q.n /\ q.n < (i + 1) * q.d

\* C19: idiv on two numbers pushes an Integer (two Integers with the divisor 0
\* give no result at all); with a Float among them it is the floor of b / a.
C19_IDivFloors ==
    [][(/\ TwoOperands
        /\ Current.op = "IDiv"
        /\ IsNumber(Top(stack)) /\ IsNumber(Next2(stack))) =>
            LET a == Top(stack)
                b == Next2(stack)
                q == FDiv(AsFloat(b), AsFloat(a))
            IN  IF a.tag = "Integer" /\ b.tag = "Integer"
                THEN PushesOne("Integer") \/ (ZeroDivisor /\ pc' = "panic")
                ELSE /\ PushesOne("Integer")
                     /\ q.k = "fin" => IsFloorOf(Top(stack').i, q)]_vars

C19_Witness ==
    /\ last.ev = "ok"
    /\ Ran.op = "IDiv"
    /\ program[1].value = Float(-7, 1)
    /\ program[2].value = Integer(2)
    /\ stack = <<Integer(-4)>>

(***************************************************************************)
(* C20 (Spec).                                                             *)
(***************************************************************************)
\* C20: an instruction execute() does not implement (time, int-to-string,
\* int-to-float) emits the diagnostic 'Unimplemented instruction' and halts.
C20_UnimplementedIsFatal ==
    [][(Fetching /\ Current.op \in {"Time", "IToA", "IToF"}) =>
            /\ stderr' = Append(stderr, Error("Unimplemented instruction", ""))
            /\ pc' = "error"
            /\ ip' = ip]_vars


(***************************************************************************)
(* C21 (ArithSpec).                                                        *)
(***************************************************************************)
\* a = b, for two values of one type
ValueEq(a, b) ==
    CASE a.tag = "Integer" -> a.i = b.i
      [] a.tag = "String" -> a.s = b.s
      [] a.tag = "Float" -> FEq(a, b)

\* a < b, for two values of one type
ValueLt(a, b) ==
    CASE a.tag = "Integer" -> a.i < b.i
      [] a.tag = "String" -> StrLt(a.s, b.s)
      [] a.tag = "Float" -> FLt(a, b)

\* the loop is about to run a cmp or an scmp that has its operands
Comparing ==
    /\ Fetching
    /\ \/ Current.op = "Cmp" /\ Len(stack) >= 1
       \/ Current.op = "CmpInStack" /\ Len(stack) >= 2

\* the pair a comparison is about: the top of the stack and the literal of cmp
\* or the value under the top for scmp
Compared ==
    <<Top(stack), IF Current.op = "Cmp" THEN Current.value ELSE Next2(stack)>>

\* C21: a cmp or scmp that succeeds, a the top of the stack and b the literal
\* (cmp) or the value under the top (scmp), leaves equal = (a = b), not_equal
\* = (a /= b), greater_than = (a > b), less_than = (a < b),
\* greater_than_or_equal = (a >= b), less_than_or_equal = (a <= b), and zero
\* and negative again from the same pair: no flag depends on the flags before.
C21_CompareSetsAllFlags ==
    [][(Comparing /\ pc' = "loop") =>
            LET a == Compared[1]
                b == Compared[2]
            IN  /\ a.tag = b.tag
                /\ flags'.equal = ValueEq(a, b)
                /\ flags'.not_equal = ~ValueEq(a, b)
                /\ flags'.greater_than = ValueLt(b, a)
                /\ flags'.less_than = ValueLt(a, b)
                /\ flags'.greater_than_or_equal = (ValueLt(b, a) \/ ValueEq(a, b))
                /\ flags'.less_than_or_equal = (ValueLt(a, b) \/ ValueEq(a, b))
                /\ flags'.zero = ValueEq(a, b)
                /\ flags'.negative = ValueLt(a, b)]_vars

\* push 3; cmp 3; push 2; scmp has run: the second comparison, of 2 with 3,
\* has replaced every flag the first one, of 3 with 3, had set
C21_Witness ==
    /\ symbols \in {Symbols(p) : p \in ComparePrograms}
    /\ pc = "loop"
    /\ ip = 4
    /\ program[2].value = Integer(3)
    /\ stack = <<Integer(3), Integer(2)>>
    /\ flags = SetFlags(FALSE, TRUE, TRUE, FALSE, FALSE, TRUE)


(***************************************************************************)
(* C22 (ControlSpec).                                                      *)
(***************************************************************************)
\* the indexes (0-based) of the Label instructions named name
LabelIndexes(name) ==
    {i \in 0..(Len(program) - 1) :
        program[i + 1].op = "Label" /\ program[i + 1].label = name}

DefinedLabels ==
    {program[i].label : i \in {j \in 1..Len(program) : program[j].op = "Label"}}

\* C22: once the labels are resolved, and so before the first instruction
\* runs, the label table has exactly the names the program's Label instructions
\* define and maps each to the index of the last Label of that name; a jump
\* whose label is defined anywhere in the program, before or after the jump,
\* finds that same entry.
C22_LabelTableHoldsLastDefinition ==
    InLoop =>
        /\ DOMAIN labels = DefinedLabels
        /\ \A n \in DefinedLabels :
                /\ labels[n] \in LabelIndexes(n)
                /\ \A i \in LabelIndexes(n) : i <= labels[n]
        /\ \A j \in 1..Len(program) :
                (program[j].op \in JumpOps /\ LabelIndexes(program[j].label) # {}) =>
                    /\ program[j].label \in DOMAIN labels
                    /\ \A i \in LabelIndexes(program[j].label) :
                            i <= labels[program[j].label]

\* A:; jmp @A; A: has run: the jump went to the second A, the one after it
C22_Witness ==
    /\ Len(program) = 3
    /\ LabelIndexes("A") = {0, 2}
    /\ program[2].op = "Jump"
    /\ "A" \in DOMAIN labels
    /\ labels["A"] = 2
    /\ last = [ip |-> 1, ev |-> "taken"]
    /\ pc = "end"


(***************************************************************************)
(* C23 (Spec).                                                             *)
(***************************************************************************)
TakesLiteral == {"push", "cmp"}

TakesLabel == {"jmp", "jeq", "jne", "jgt", "jlt", "jge", "jle", "jz", "jnz", "jneg"}

\* the names the opcode match of compile() has an arm for
KnownOpcodes == DOMAIN ZeroOperand \cup TakesLiteral \cup TakesLabel

IsLiteral(sym) == sym.symbol_type \in {"String", "Integer", "Float"}

\* the opcode whose argument is awaited when symbol k is read, "" if none,
\* the symbols before k having been accepted
RECURSIVE PendingAt(_)
PendingAt(k) ==
    IF k = 1 THEN ""
    ELSE IF /\ symbols[k - 1].symbol_type = "Instruction"
            /\ symbols[k - 1].value \in TakesLiteral \cup TakesLabel
            /\ PendingAt(k - 1) = ""
         THEN symbols[k - 1].value
         ELSE ""

\* symbol k, or the end of the symbols for k = Len(symbols) + 1, is one of the
\* cases the claim lists
ListedCase(k) ==
    IF k = Len(symbols) + 1 THEN PendingAt(k) # ""
    ELSE LET sym == symbols[k]
         IN  \/ /\ sym.symbol_type = "Instruction"
                /\ sym.value \notin KnownOpcodes
             \/ /\ IsLiteral(sym)
                /\ PendingAt(k) \in {""} \cup TakesLabel
             \/ /\ sym.symbol_type = "LabelReference"
                /\ PendingAt(k) \in {""} \cup TakesLiteral
             \/ /\ sym.symbol_type = "Label"
                /\ PendingAt(k) # ""

\* an opcode where an argument is awaited: malformed, though not a listed case
OpcodeForArgument(k) ==
    /\ k <= Len(symbols)
    /\ symbols[k].symbol_type = "Instruction"
    /\ PendingAt(k) # ""

Malformed(k) == ListedCase(k) \/ OpcodeForArgument(k)

\* no symbol before k is malformed
AcceptedBefore(k) == \A j \in 1..(k - 1) : ~Malformed(j)

\* C23: when the first malformed place of the symbols is an opcode compile()
\* has no arm for, a
\* literal with no argument awaited or a jump awaiting its label, a label
\* reference with no argument awaited or push/cmp awaiting a literal, a label
\* definition while an argument is awaited, or the end of the symbols while an
\* argument is awaited, compile() emits one diagnostic, positioned at that
\* symbol (the empty position for the end of the symbols), and the program
\* holds only what the symbols before it gave; when nothing is malformed
\* compile() emits nothing.
C23_CompileDiagnosesListedCases ==
    compiled # "none" =>
        /\ \A k \in 1..(Len(symbols) + 1) :
                (AcceptedBefore(k) /\ ListedCase(k)) =>
                    /\ compiled = "error"
                    /\ Len(stderr) >= 1
                    /\ stderr[1].pos = IF k = Len(symbols) + 1 THEN ""
                                       ELSE Pos(symbols[k])
                    /\ \A i \in 1..Len(program) :
                            \E j \in 1..(k - 1) : program[i].pos = Pos(symbols[j])
        /\ AcceptedBefore(Len(symbols) + 2) =>
                /\ compiled = "ok"
                /\ last.ev = "none" => stderr = <<>>

\* pop; push: the symbols end while push awaits its literal, the diagnostic
\* has the empty position and the program is the pop alone
C23_Witness ==
    /\ compiled = "error"
    /\ Len(symbols) = 2
    /\ symbols[1].value = "pop"
    /\ symbols[2].value = "push"
    /\ Len(program) = 1
    /\ stderr[1] = Error("Missing argument for instruction: push", "")


(***************************************************************************)
(* C24 (ControlSpec).                                                      *)
(***************************************************************************)
\* the value a literal symbol denotes
LiteralValue(sym) ==
    CASE sym.symbol_type = "String" -> String(sym.value)
      [] sym.symbol_type = "Integer" -> Integer(ParseI32(sym.value)[2])
      [] sym.symbol_type = "Float" -> ParseF32(sym.value)[2]

\* the instructions the symbols from k on stand for, positions left out: one
\* for a zero-operand opcode, one for a label definition, one for an opcode and
\* the operand after it
RECURSIVE ExpectedFrom(_)
ExpectedFrom(k) ==
    IF k > Len(symbols) THEN <<>>
    ELSE LET sym == symbols[k]
         IN  CASE sym.symbol_type = "Instruction" /\ sym.value \in DOMAIN ZeroOperand ->
                    <<[op |-> ZeroOperand[sym.value]]>> \o ExpectedFrom(k + 1)
               [] sym.symbol_type = "Label" ->
                    <<[op |-> "Label", label |-> SubSeq(sym.value, 1, Len(sym.value) - 1)]>>
                        \o ExpectedFrom(k + 1)
               [] sym.symbol_type = "Instruction" /\ sym.value \in TakesLiteral
                        /\ k < Len(symbols) ->
                    <<[op |-> LiteralOpcode[sym.value],
                       value |-> LiteralValue(symbols[k + 1])]>> \o ExpectedFrom(k + 2)
               [] sym.symbol_type = "Instruction" /\ sym.value \in TakesLabel
                        /\ k < Len(symbols) ->
                    <<[op |-> JumpOpcode[sym.value],
                       label |-> SubSeq(symbols[k + 1].value, 2, Len(symbols[k + 1].value))]>>
                        \o ExpectedFrom(k + 2)
               [] OTHER -> ExpectedFrom(k + 1)

\* an instruction without its position
NoPos(ins) == [f \in (DOMAIN ins) \ {"pos"} |-> ins[f]]

\* C24: when compile() accepts the symbols, the program is, in source order,
\* one instruction for each zero-operand opcode, one for each label
\* definition, named by the text without its last character, and one for each
\* operand-taking opcode together with the operand after it, the literal's
\* value or the reference's text without its first character; an opcode
\* awaiting its operand adds nothing by itself, and once the operand is taken
\* nothing is awaited, so that symbols with no malformed place are accepted
\* whatever follows an operand.
C24_ProgramMirrorsSymbols ==
    compiled # "none" =>
        /\ compiled = "ok" =>
                [i \in 1..Len(program) |-> NoPos(program[i])] = ExpectedFrom(1)
        /\ AcceptedBefore(Len(symbols) + 2) => compiled = "ok"

\* the thirteen symbols of the call round trip were accepted and gave nine
\* instructions, the label L among them
C24_Witness ==
    /\ compiled = "ok"
    /\ pc = "loop"
    /\ last.ev = "none"
    /\ Len(symbols) = 13
    /\ Len(program) = 9
    /\ NoPos(program[1]) = [op |-> "Jump", label |-> "L"]
    /\ NoPos(program[2]) = [op |-> "Push", value |-> String("skipped")]
    /\ NoPos(program[4]) = [op |-> "Label", label |-> "L"]

(***************************************************************************)
(* C26 (ControlSpec).                                                      *)
(***************************************************************************)
\* the jumps whose None arm has no `return`
LenientJumps == {"JumpEq", "JumpNotZero", "JumpNeg"}

\* C26: a taken jump to a label the table lacks emits the diagnostic naming the
\* label; for jeq, jnz and jneg the run then goes on with the next
\* instruction, the stacks and flags as they were; for jmp, jne, jgt, jlt, jge,
\* jle and jz the run halts on the jump.
C26_UnresolvedJumpHaltsOrFallsThrough ==
    [][(TakingJump /\ Current.label \notin DOMAIN labels) =>
            /\ stderr' = Append(stderr,
                    Error("Unknown label: " \o Current.label, Current.pos))
            /\ return_stack' = return_stack
            /\ stack' = stack
            /\ flags' = flags
            /\ IF Current.op \in LenientJumps
               THEN pc' = "loop" /\ ip' = ip + 1
               ELSE pc' = "error" /\ ip' = ip]_vars

\* a jeq to the undefined Z was taken with equal set: the diagnostic is out and
\* the loop is at the instruction after the jump
C26_Witness ==
    /\ pc = "loop"
    /\ last.ev = "diag"
    /\ Ran.op = "JumpEq"
    /\ Ran.label \notin DOMAIN labels
    /\ flags.equal
    /\ ip = last.ip + 1
    /\ stderr = <<Error("Unknown label: Z", Ran.pos)>>

(***************************************************************************)
(* C27 (ArithSpec).                                                        *)
(***************************************************************************)
\* C27: div, idiv and mod on two Integers with 0 on top end the run in the
\* runtime's fault: no diagnostic is emitted, nothing is printed, and the two
\* operands are gone from the stack.
C27_IntegerZeroDivisorFaults ==
    [][(Fetching /\ Len(stack) >= 2 /\ ZeroDivisor) =>
            /\ pc' = "panic"
            /\ stderr' = stderr
            /\ stdout' = stdout
            /\ stack' = Drop(stack, 2)
            /\ ip' = ip]_vars

\* push 7; push 0; mod has faulted: both operands popped, nothing on stderr
C27_Witness ==
    /\ pc = "panic"
    /\ Len(program) = 3
    /\ program[1].value = Integer(7)
    /\ program[2].value = Integer(0)
    /\ program[3].op = "Mod"
    /\ stack = <<>>
    /\ stderr = <<>>

(***************************************************************************)
(* C28 (ControlSpec).                                                      *)
(***************************************************************************)
ConditionalJumps == JumpOps \ {"Jump"}

\* the step is a successful cmp or scmp
ComparesNow == Comparing /\ Compared[1].tag = Compared[2].tag /\ pc' = "loop"

\* C28: a conditional jump acts as a jump exactly when its own flag holds when
\* it runs (jeq equal, jne not_equal, jgt greater_than, jlt less_than, jge
\* greater_than_or_equal, jle less_than_or_equal, jz zero, jnz not zero, jneg
\* negative): then it goes to its label, pushing the return address, or
\* reports the label unknown; otherwise it only moves to the next instruction.
\* The flags are those of the latest successful cmp or scmp: no other step
\* changes them.
C28_ConditionalJumpFollowsItsFlag ==
    [][/\ (Fetching /\ Current.op \in ConditionalJumps) =>
            IF Condition(Current.op, flags)
            THEN IF Current.label \in DOMAIN labels
                 THEN /\ ip' = labels[Current.label] + 1
                      /\ return_stack' = Append(return_stack, ip + 1)
                      /\ stderr' = stderr
                 ELSE /\ stderr' # stderr
                      /\ return_stack' = return_stack
            ELSE /\ ip' = ip + 1
                 /\ pc' = "loop"
                 /\ return_stack' = return_stack
                 /\ stderr' = stderr
       /\ flags' # flags => ComparesNow]_vars

\* push 0; cmp 1; jle @A: less_than_or_equal holds though equal does not, and
\* the jump was taken
C28_Witness ==
    /\ last.ev = "taken"
    /\ Ran.op = "JumpLtEq"
    /\ flags.less_than_or_equal
    /\ ~flags.equal
    /\ return_stack = <<last.ip + 1>>
    /\ ip = labels[Ran.label] + 1

(***************************************************************************)
(* C29 (ControlSpec).                                                      *)
(***************************************************************************)
\* C29: exit ends the run at once and normally: the step emits no diagnostic,
\* prints nothing, leaves the value stack, the return-address stack and the
\* flags as they are, whatever they hold, and nothing runs after it.
C29_ExitEndsTheRun ==
    [][/\ pc # "exit"
       /\ (Fetching /\ Current.op = "Exit") =>
            /\ pc' = "exit"
            /\ EndedNormally'
            /\ stack' = stack
            /\ return_stack' = return_stack
            /\ flags' = flags
            /\ stderr' = stderr
            /\ stdout' = stdout]_vars

\* an exit reached through a taken jump, with a value on the stack, a return
\* address pending and an instruction after it left unexecuted
C29_Witness ==
    /\ pc = "exit"
    /\ last.ev = "exit"
    /\ stack # <<>>
    /\ return_stack # <<>>
    /\ flags # NoFlags
    /\ ip + 1 < Len(program)
    /\ stderr = <<>>

(***************************************************************************)
(* C30 (ControlSpec).                                                      *)
(***************************************************************************)
\* C30: running a Label changes neither stack nor the flags, emits and prints
\* nothing, and moves ip on by one; a taken jump to a defined label L goes on
\* with the instruction at labels[L] + 1, and the slot it passes over,
\* labels[L], holds the Label L, so that landing on the slot would come to the
\* same.
C30_LabelIsNoOp ==
    [][/\ (Fetching /\ Current.op = "Label") =>
            /\ stack' = stack
            /\ return_stack' = return_stack
            /\ flags' = flags
            /\ stderr' = stderr
            /\ stdout' = stdout
            /\ ip' = ip + 1
            /\ pc' = "loop"
       /\ (TakingJump /\ Current.label \in DOMAIN labels) =>
            /\ ip' = labels[Current.label] + 1
            /\ pc' = "loop"
            /\ program[labels[Current.label] + 1].op = "Label"
            /\ program[labels[Current.label] + 1].label = Current.label]_vars

\* a Label was run over after a jump that was not taken, a value on the stack
\* and the flags set
C30_Witness ==
    /\ pc = "loop"
    /\ last.ip >= 1
    /\ Ran.op = "Label"
    /\ ip = last.ip + 1
    /\ stack # <<>>
    /\ flags # NoFlags
    /\ return_stack = <<>>
    /\ stderr = <<>>

(***************************************************************************)
(* C25 (MainSpec).                                                         *)
(***************************************************************************)
\* the symbols are made: the tokenizer has finished
Tokenized == pc \notin {"tokenize", "into_symbols"} /\ tokenizer.tokens # <<>>

\* C25: for every source text, each symbol the tokenizer classifies Integer has
\* text that parses as an i32 and each symbol it classifies Float has text that
\* parses as an f32, and so compile() never faults on a numeric parse.
C25_NumericTextParses ==
    Tokenized =>
        /\ \A k \in 1..Len(symbols) :
                /\ symbols[k].symbol_type = "Integer" => ParseI32(symbols[k].value)[1]
                /\ symbols[k].symbol_type = "Float" => ParseF32(symbols[k].value)[1]
        /\ pc = "panic" => compiled # "none"

(***************************************************************************)
(* C31 (ControlSpec).                                                      *)
(***************************************************************************)
AllFlagsFalse == \A f \in DOMAIN flags : ~flags[f]

\* the step transfers control as a jump does, or reports its label unknown
ActsAsJump ==
    IF Current.label \in DOMAIN labels
    THEN /\ ip' = labels[Current.label] + 1
         /\ return_stack' = Append(return_stack, ip + 1)
         /\ stderr' = stderr
    ELSE /\ stderr' # stderr
         /\ return_stack' = return_stack

\* the step only moves to the next instruction
FallsThrough ==
    /\ ip' = ip + 1
    /\ pc' = "loop"
    /\ return_stack' = return_stack
    /\ stderr' = stderr

\* C31: the flags are all false when execute() begins with compile() and stay
\* so until a cmp or scmp succeeds;
\* while they are all false jnz is taken and jeq, jne, jgt, jlt, jge, jle, jz
\* and jneg are not; after every successful comparison not_equal and the
\* negation of zero agree, which they do not while all flags are false.
C31_InitialFlagsTakeOnlyJnz ==
    [][/\ pc = "compile" => AllFlagsFalse
       /\ (AllFlagsFalse /\ ~ComparesNow) => AllFlagsFalse'
       /\ (AllFlagsFalse /\ Fetching /\ Current.op \in ConditionalJumps) =>
             IF Current.op = "JumpNotZero" THEN ActsAsJump ELSE FallsThrough
       /\ ComparesNow => (flags'.not_equal = ~flags'.zero)
       /\ AllFlagsFalse => (flags.not_equal # ~flags.zero)]_vars

\* with no comparison run, and every flag false, a jnz to a defined label was
\* taken
C31_Witness ==
    /\ AllFlagsFalse
    /\ last = [ip |-> 0, ev |-> "taken"]
    /\ program[1].op = "JumpNotZero"
    /\ return_stack = <<1>>
    /\ stderr = <<>>

(***************************************************************************)
(* C32 (ArithSpec).                                                        *)
(***************************************************************************)
\* the relations among the flags that a total order gives
Consistent(f) ==
    /\ f.zero = f.equal
    /\ f.negative = f.less_than
    /\ f.not_equal = ~f.equal
    /\ f.greater_than_or_equal = ~f.less_than
    /\ f.less_than_or_equal = ~f.greater_than
    /\ \/ f.less_than /\ ~f.equal /\ ~f.greater_than
       \/ ~f.less_than /\ f.equal /\ ~f.greater_than
       \/ ~f.less_than /\ ~f.equal /\ f.greater_than

\* a cmp with an Integer or String literal is among the instructions the run
\* has passed (the programs of this family have no jumps)
PassedIntegerOrStringCmp ==
    /\ InLoop
    /\ \E i \in 1..ip :
            i <= Len(program) /\ program[i].op = "Cmp"
                /\ program[i].value.tag \in {"Integer", "String"}

\* C32, as claimed: in every state after a successful cmp or scmp on Integers
\* or Strings the flags are mutually consistent.
C32_FlagsConsistentAfterAnyCompare == PassedIntegerOrStringCmp => Consistent(flags)

\* C32, amended: the flags a successful cmp or scmp on Integers or Strings
\* leaves are mutually consistent (zero = equal, negative = less_than,
\* not_equal = not equal, greater_than_or_equal = not less_than,
\* less_than_or_equal = not greater_than, exactly one of less_than, equal,
\* greater_than), and they stay as left until the next successful compare; a
\* compare that fails with a type mismatch halts with the flags unchanged.  A
\* later compare of Floats one of which is NaN leaves flags that are not.
C32_CompareLeavesConsistentFlags ==
    [][/\ (ComparesNow /\ Compared[1].tag \in {"Integer", "String"}) =>
            Consistent(flags')
       /\ ~ComparesNow => flags' = flags
       /\ (Comparing /\ Compared[1].tag # Compared[2].tag) =>
            /\ flags' = flags
            /\ pc' = "error"]_vars

\* push 2; cmp 3; push "ab"; scmp: the scmp failed on the type mismatch and the
\* flags are those the cmp left
C32_Witness ==
    /\ pc = "error"
    /\ last.ip = 3
    /\ program[4].op = "CmpInStack"
    /\ program[2].value = Integer(3)
    /\ stack = <<>>
    /\ flags = SetFlags(FALSE, TRUE, TRUE, FALSE, FALSE, TRUE)
    /\ Consistent(flags)

(***************************************************************************)
(* C33 (ControlSpec).                                                      *)
(***************************************************************************)
\* C33: a step changes the flags only if it runs a cmp or an scmp; it changes
\* the return-address stack only if it is a taken jump, which pushes ip + 1,
\* or a ret, which pops; a jump, a ret, a label or an exit never changes the
\* value stack; and once the loop has started the program and the label table
\* do not change.
C33_FrameConditions ==
    [][/\ flags' # flags => (Fetching /\ Current.op \in {"Cmp", "CmpInStack"})
       /\ return_stack' # return_stack =>
            /\ Fetching
            /\ \/ /\ Current.op \in JumpOps
                  /\ Condition(Current.op, flags)
                  /\ return_stack' = Append(return_stack, ip + 1)
               \/ /\ Current.op = "Return"
                  /\ return_stack' = Drop(return_stack, 1)
       /\ (Fetching /\ Current.op \in JumpOps \cup {"Return", "Label", "Exit"}) =>
            stack' = stack
       /\ InLoop => (program' = program /\ labels' = labels)]_vars

\* a conditional jump was not taken: the value on the stack and the flags the
\* cmp left are in place and the return-address stack is still empty
C33_Witness ==
    /\ pc = "loop"
    /\ last.ev = "not_taken"
    /\ Ran.op = "JumpGt"
    /\ stack # <<>>
    /\ flags.less_than
    /\ return_stack = <<>>
    /\ ip = last.ip + 1

(***************************************************************************)
(* C34 (ControlSpec).                                                      *)
(***************************************************************************)
\* the step is a taken jump to a label the table has
JumpsNow == TakingJump /\ Current.label \in DOMAIN labels

\* the step is a ret that finds a return address
ReturnsNow == Fetching /\ Current.op = "Return" /\ return_stack # <<>>

\* C34: the return-address stack starts empty, every taken jump makes it one
\* deeper, every successful ret one shallower, and no other step changes its
\* depth: the depth is the number of taken jumps so far less the number of
\* successful rets, and a loop closed by a taken jump with no ret in it is one
\* deeper after each iteration.
C34_DepthCountsJumpsLessReturns ==
    /\ return_stack = <<>>
    /\ [][Len(return_stack') - Len(return_stack) =
            (IF JumpsNow THEN 1 ELSE IF ReturnsNow THEN -1 ELSE 0)]_vars

\* L:; jmp @L has gone round MaxRet times: as many return addresses, all the
\* same, are on the return-address stack
C34_Witness ==
    /\ Len(program) = 2
    /\ program[1].op = "Label"
    /\ program[2].op = "Jump"
    /\ pc = "loop"
    /\ return_stack = [k \in 1..MaxRet |-> 2]
    /\ last = [ip |-> 1, ev |-> "taken"]

(***************************************************************************)
(* C35 (Spec).                                                             *)
(***************************************************************************)
\* C35: when an opcode arrives while an earlier opcode still awaits its
\* operand, compile() emits "Missing argument for instruction: " and the name
\* of the waiting opcode, positioned at the arriving symbol, and the program
\* holds nothing made from either of the two symbols.
C35_OpcodeForArgumentIsRejected ==
    compiled # "none" =>
        \A k \in 1..Len(symbols) :
            (AcceptedBefore(k) /\ OpcodeForArgument(k)) =>
                /\ compiled = "error"
                /\ Len(stderr) >= 1
                /\ stderr[1] = Error("Missing argument for instruction: "
                                        \o symbols[k - 1].value, Pos(symbols[k]))
                /\ \A i \in 1..Len(program) :
                        \E j \in 1..(k - 2) : program[i].pos = Pos(symbols[j])

\* pop; jmp; pop: the second pop arrived while jmp awaited its label; the
\* program is the first pop alone
C35_Witness ==
    /\ compiled = "error"
    /\ Len(symbols) = 3
    /\ symbols[1].value = "pop"
    /\ symbols[2].value = "jmp"
    /\ symbols[3].value = "pop"
    /\ Len(program) = 1
    /\ program[1].pos = "1:1"
    /\ stderr[1] = Error("Missing argument for instruction: jmp", "3:1")

(***************************************************************************)
(* C36 (MainSpec).                                                         *)
(***************************************************************************)
\* the character the coming iteration of tokenize() reads
Reading == tokenizer.code[tokenizer.next + 1]

\* a numeric or identifier token is being read and has text
TokenPending ==
    /\ tokenizer.token_type \in {"NumericLiteral", "Identifier"}
    /\ tokenizer.curr_token # ""

\* the step adds exactly the token `token` to the tokens
Emits(token) == tokenizer'.tokens = Append(tokenizer.tokens, token)

\* C36: a step of tokenize() adds at most one token; it adds a numeric or
\* identifier token only in an iteration that reads a space, a tab or a
\* newline; at the end of the characters it adds the EOF token and nothing
\* else, so a numeric or identifier token still being read is never added, and
\* into_symbols() makes one symbol per token before the EOF token, none for
\* that text.
C36_TokenNeedsTrailingWhitespace ==
    [][/\ pc = "tokenize" =>
            \/ tokenizer'.tokens = tokenizer.tokens
            \/ \E token \in {tokenizer'.tokens[Len(tokenizer'.tokens)]} :
                    /\ Emits(token)
                    /\ token.token_type \in {"NumericLiteral", "Identifier"} =>
                            /\ tokenizer.next < Len(tokenizer.code)
                            /\ Reading \in {" ", "\t", "\n"}
                    /\ tokenizer.next = Len(tokenizer.code) => token.token_type = "EOF"
       /\ pc # "tokenize" => tokenizer' = tokenizer
       /\ pc = "into_symbols" =>
            /\ Len(symbols') = Len(tokenizer.tokens) - 1
            /\ \A k \in 1..Len(symbols') :
                    /\ symbols'[k].line_number = tokenizer.tokens[k].line_number
                    /\ symbols'[k].column_number = tokenizer.tokens[k].column_number
                    /\ IsPrefix(tokenizer.tokens[k].value, symbols'[k].value)]_vars

\* the source "push 1" with no newline after it: the 1 is still being read at
\* the end, the tokens are push and EOF, and push is the only symbol
C36_Witness ==
    /\ pc = "compile"
    /\ tokenizer.code = <<"p", "u", "s", "h", " ", "1">>
    /\ tokenizer.next = Len(tokenizer.code)
    /\ TokenPending
    /\ tokenizer.curr_token = "1"
    /\ Len(tokenizer.tokens) = 2
    /\ tokenizer.tokens[2].token_type = "EOF"
    /\ Len(symbols) = 1
    /\ symbols[1].value = "push"

(***************************************************************************)
(* C37 (MainSpec).                                                         *)
(***************************************************************************)
\* the newline characters among the first n characters of the source
RECURSIVE Newlines(_)
Newlines(n) ==
    IF n = 0 THEN 0
    ELSE Newlines(n - 1) + (IF tokenizer.code[n] = "\n" THEN 1 ELSE 0)

\* character n of the source lies after a ';' of its own line
RECURSIVE InComment(_)
InComment(n) ==
    /\ n > 1
    /\ tokenizer.code[n - 1] # "\n"
    /\ (tokenizer.code[n - 1] = ";" \/ InComment(n - 1))

\* the comments closed by a newline among the first n characters of the source
RECURSIVE Comments(_)
Comments(n) ==
    IF n = 0 THEN 0
    ELSE Comments(n - 1)
            + (IF tokenizer.code[n] = "\n" /\ InComment(n) THEN 1 ELSE 0)

\* C37: while tokenize() reads, line_number is 1 plus the newlines read so
\* far less the comments those newlines closed: a newline that closes a
\* comment leaves line_number and column_number as they were, any other
\* newline adds one to line_number and sets column_number to 1.  A token gets
\* the line_number of the moment it is pushed and its symbol the same, so the
\* line number of a symbol is 1 plus the newlines before it exactly when no
\* comment was closed before it, and otherwise too small by the number of
\* those comments.
C37_CommentsHoldLineNumberBack ==
    /\ [][pc = "tokenize" /\ tokenizer.next < Len(tokenizer.code) /\ Reading = "\n"
            /\ pc' = "tokenize" =>
            IF tokenizer.token_type = "Comment"
            THEN /\ InComment(tokenizer.next + 1)
                 /\ tokenizer'.line_number = tokenizer.line_number
                 /\ tokenizer'.column_number = tokenizer.column_number
            ELSE /\ ~InComment(tokenizer.next + 1)
                 /\ tokenizer'.line_number = tokenizer.line_number + 1
                 /\ tokenizer'.column_number = 1]_vars
    /\ [][pc = "tokenize" /\ tokenizer'.tokens # tokenizer.tokens =>
            \E token \in {tokenizer'.tokens[Len(tokenizer'.tokens)]} :
                /\ token.line_number
                        = 1 + Newlines(tokenizer.next) - Comments(tokenizer.next)
                /\ (token.line_number = 1 + Newlines(tokenizer.next))
                        <=> (Comments(tokenizer.next) = 0)]_vars
    /\ [][pc = "into_symbols" =>
            \A k \in 1..Len(symbols') :
                symbols'[k].line_number = tokenizer.tokens[k].line_number]_vars

\* two comments on two lines, then print on the third line: print is recorded
\* on line 1, and its column counts on from the two semicolons
C37_Witness ==
    /\ pc = "compile"
    /\ tokenizer.code = Chars("; c") \o <<"\n">> \o Chars("; d") \o <<"\n">>
                            \o Chars("print") \o <<"\n">>
    /\ Len(symbols) = 1
    /\ symbols[1].value = "print"
    /\ symbols[1].line_number = 1
    /\ symbols[1].column_number = 8
    /\ Newlines(Len(tokenizer.code) - 1) = 2
    /\ Comments(Len(tokenizer.code) - 1) = 2

(***************************************************************************)
(* C38 (ControlSpec).                                                      *)
(***************************************************************************)
\* every return address is the index after some instruction, and ip is an
\* index of the program or its length
AddressesInProgram ==
    /\ \A k \in 1..Len(return_stack) :
            1 <= return_stack[k] /\ return_stack[k] <= Len(program)
    /\ 0 <= ip /\ ip <= Len(program)

\* C38: in every state each address r on the return stack has
\* 1 <= r <= Len(program) and ip lies in 0..Len(program); a ret that finds an
\* address r computes r - 1 >= 0 without a fault and the iteration ends with
\* ip = r.
C38_ReturnAddressesInRange ==
    /\ AddressesInProgram
    /\ [][/\ AddressesInProgram'
          /\ ReturnsNow =>
                /\ Top(return_stack) - 1 >= 0
                /\ ip' = Top(return_stack)
                /\ pc' = "loop"
                /\ last' = [ip |-> ip, ev |-> "ret"]]_vars

\* jmp @A; exit; A:; jmp @B; ret; B:; ret after the ret of B: the address 4
\* was popped and is the new ip, the address 1 of the first jump remains
C38_Witness ==
    /\ Len(program) = 7
    /\ program[1].op = "Jump"
    /\ program[4].op = "Jump"
    /\ pc = "loop"
    /\ last = [ip |-> 6, ev |-> "ret"]
    /\ ip = 4
    /\ return_stack = <<1>>

=============================================================================
